---- MODULE Spec2Model ----
(***************************************************************************)
(* Authentication and credential-verification core of just-to-do:          *)
(* password hasher, credential service over the MySQL user store, JWT      *)
(* token codec, and the authentication / authorization middleware.         *)
(*                                                                         *)
(* Strings are modelled as tuples of string atoms, so that a bcrypt digest *)
(* (a string that embeds its salt and determines its preimage) and a plain *)
(* password are values of one kind and can be passed for one another, as   *)
(* Go strings can.                                                         *)
(***************************************************************************)
EXTENDS Integers, Sequences, FiniteSets, TLC

VARIABLES
    users,      \* rows of the MySQL table `users`
    nextId,     \* AUTO_INCREMENT counter of users.id
    reg,        \* per caller: the RegisterUser call it is executing
    last,       \* the last completed service call and what it returned
    now,        \* the wall clock, in ticks
    codec,      \* the jwtToken instance: implementation, secretKey, expireDuration
    issued,     \* tokens GenerateToken has returned, with the arguments and time of the call
    parsed,     \* the last ParseToken call: token, time, what it returned, and the table then
    refreshed,  \* the last RefreshToken call: token, time, and what it returned
    req,        \* the HTTP request in the middleware chain, and its answer
    env,        \* the build and the JWT_* environment the process started with
    once,       \* per singleton: the state of its sync.Once
    instance,   \* per singleton: the package variables its initialisation assigns
    inits,      \* per singleton: how many times its initialisation function has been entered
    panicked,   \* the singletons whose initialisation function panicked
    frames,     \* per goroutine: the accessor it is executing
    ret,        \* the last accessor call that ended, and what its caller observed
    api,        \* the last HTTP exchange a business handler answered
    dn,         \* the daily_notes table, the calendar day, and the CreateDailyNote calls in progress
    my,         \* the MySQL configuration singleton and the GetMySQLConfig calls in progress
    tx          \* the database transactions and the Client.Transaction calls in progress

credVars == <<users, nextId, reg, last>>

tokVars == <<now, codec, issued, parsed, refreshed>>

mwVars == <<req>>

cfgVars == <<env, once, instance, inits, panicked, frames, ret>>

appVars == <<api, dn, my, tx>>

vars == <<users, nextId, reg, last, now, codec, issued, parsed, refreshed, req,
          env, once, instance, inits, panicked, frames, ret, api, dn, my, tx>>

(***************************************************************************)
(* Bounds and input domains                                                *)
(***************************************************************************)
NProcs == 2

Procs == 1..NProcs

\* the request goroutine the sequential specification runs its calls on; a
\* new call of it discards the frame of its previous one
SeqCaller == CHOOSE p \in Procs : \A q \in Procs : p <= q

\* users.id values handed out by AUTO_INCREMENT before the model stops inserting
MaxId == 2

Usernames == {"alice", "bob"}

Emails == {"alice@example.com", "bob@example.com"}

Passwords == {<<"Passw0rd!">>, <<"Hunter2!!">>}

Salts == {"saltA", "saltB"}

(***************************************************************************)
(* Credential hasher (bcrypt)                                              *)
(***************************************************************************)
\* golang.org/x/crypto/bcrypt.GenerateFromPassword: the digest string embeds
\* the version tag and the salt and is a one-way image of the password.
bcryptGenerateFromPassword(password, salt) == <<"$2a$", salt>> \o password

\* golang.org/x/crypto/bcrypt.CompareHashAndPassword(hashedPassword, password):
\* an error unless hashedPassword is a well-formed digest whose preimage is
\* password.
bcryptCompareHashAndPassword(hashedPassword, password) ==
    /\ Len(hashedPassword) >= 3
    /\ hashedPassword[1] = "$2a$"
    /\ SubSeq(hashedPassword, 3, Len(hashedPassword)) = password

\* auth.Hasher.Hash(password)
HasherHash(password, salt) == bcryptGenerateFromPassword(password, salt)

\* a Verify that hands its arguments to bcrypt in the order it received them
HasherVerify_PasswordAsHash(password, hash) ==
    bcryptCompareHashAndPassword(password, hash)

\* auth.Hasher.Verify(password, hash): the plaintext is the FIRST parameter.
HasherVerify(password, hash) == bcryptCompareHashAndPassword(hash, password)

(***************************************************************************)
(* User store (mysql.UserRepository over table users)                      *)
(***************************************************************************)
UserStatusActive == "active"

UserStatusInactive == "inactive"

UserStatusBanned == "banned"

UserStatuses == {UserStatusActive, UserStatusInactive, UserStatusBanned}

\* SELECT ... WHERE deleted_at IS NULL
LiveRows(tbl) == {r \in tbl : ~r.deleted}

ExistsByUsername_OffByOne(tbl, username) ==
    Cardinality({r \in LiveRows(tbl) : r.username = username}) > 1

ExistsByUsername(tbl, username) ==
    Cardinality({r \in LiveRows(tbl) : r.username = username}) > 0

ExistsByEmail(tbl, email) ==
    Cardinality({r \in LiveRows(tbl) : r.email = email}) > 0

\* the rows FindByEmail / FindByID scan into the entity; {} is (nil, nil)
FindByEmail(tbl, email) == {r \in LiveRows(tbl) : r.email = email}

FindByID(tbl, id) == {r \in LiveRows(tbl) : r.id = id}

\* UNIQUE KEY uk_username (username), UNIQUE KEY uk_email (email): the keys
\* range over every row, soft-deleted ones included.
DuplicateKey(tbl, username, email) ==
    \E r \in tbl : r.username = username \/ r.email = email

\* user.NewUser: status active, id not yet assigned
NewUser(username, email, passwordHash) ==
    [id |-> 0, username |-> username, email |-> email,
     passwordHash |-> passwordHash, status |-> UserStatusActive,
     deleted |-> FALSE]

(***************************************************************************)
(* Credential service (user.Service)                                       *)
(***************************************************************************)
\* a RegisterUser call: its arguments, its position, its result, and what the
\* store held for its arguments when it was invoked (uLive: a live row has the
\* username; eLive: a live row has the email; anyRow: some row, live or
\* soft-deleted, has the username or the email)
IdleCall == [pc |-> "idle", username |-> "", email |-> "", password |-> <<>>,
             res |-> "", uLive |-> FALSE, eLive |-> FALSE, anyRow |-> FALSE]

NoCall == [op |-> "none", username |-> "", email |-> "", password |-> <<>>,
           newPassword |-> <<>>, uid |-> 0, res |-> ""]

\* what RegisterUser hands back: (nil, err), or the entity built by NewUser,
\* whose id the INSERT never fills in
Returned(call, res) ==
    [op |-> "RegisterUser", username |-> call.username, email |-> call.email,
     password |-> call.password, newPassword |-> <<>>, uid |-> 0, res |-> res]

AllQuiet == \A p \in Procs : reg[p].pc \in {"idle", "done"}

\* RegisterUser, first statement: ExistsByUsername
RegCheckUsername(p, username, email, password) ==
    /\ reg[p].pc \in {"idle", "done"}
    /\ nextId <= MaxId
    /\ LET call == [IdleCall EXCEPT
                      !.username = username, !.email = email, !.password = password,
                      !.uLive = (\E r \in users : r.username = username /\ ~r.deleted),
                      !.eLive = (\E r \in users : r.email = email /\ ~r.deleted),
                      !.anyRow = (\E r \in users : r.username = username \/ r.email = email)]
       IN  IF ExistsByUsername(users, username)
           THEN /\ reg' = [reg EXCEPT ![p] = [call EXCEPT !.pc = "done",
                                                         !.res = "ErrUsernameTaken"]]
                /\ last' = Returned(call, "ErrUsernameTaken")
           ELSE /\ reg' = [reg EXCEPT ![p] = [call EXCEPT !.pc = "checkEmail"]]
                /\ UNCHANGED last
    /\ UNCHANGED <<users, nextId>>
    /\ UNCHANGED <<tokVars, mwVars, cfgVars, appVars>>

\* RegisterUser, second statement: ExistsByEmail
RegCheckEmail(p) ==
    /\ reg[p].pc = "checkEmail"
    /\ IF ExistsByEmail(users, reg[p].email)
       THEN /\ reg' = [reg EXCEPT ![p].pc = "done", ![p].res = "ErrEmailAlreadyExists"]
            /\ last' = Returned(reg[p], "ErrEmailAlreadyExists")
       ELSE /\ reg' = [reg EXCEPT ![p].pc = "save"]
            /\ UNCHANGED last
    /\ UNCHANGED <<users, nextId>>
    /\ UNCHANGED <<tokVars, mwVars, cfgVars, appVars>>

\* RegisterUser, hash + NewUser + repo.Save (INSERT); a duplicate key makes the
\* INSERT fail, and Save's error comes back wrapped as "failed to save user".
\* InnoDB advances AUTO_INCREMENT for a failed INSERT too.
RegSave(p) ==
    /\ reg[p].pc = "save"
    /\ \E salt \in Salts :
         LET hash == HasherHash(reg[p].password, salt)
             user == NewUser(reg[p].username, reg[p].email, hash)
         IN  IF DuplicateKey(users, user.username, user.email)
             THEN /\ reg' = [reg EXCEPT ![p].pc = "done", ![p].res = "ErrSaveFailed"]
                  /\ last' = Returned(reg[p], "ErrSaveFailed")
                  /\ UNCHANGED users
             ELSE /\ users' = users \cup {[user EXCEPT !.id = nextId]}
                  /\ reg' = [reg EXCEPT ![p].pc = "done", ![p].res = "ok"]
                  /\ last' = Returned(reg[p], "ok")
    /\ nextId' = nextId + 1
    /\ UNCHANGED <<tokVars, mwVars, cfgVars, appVars>>

\* AuthenticateUser: FindByEmail, status switch, hash.Verify(hash, password)
AuthenticateUser_PasswordFirst(tbl, email, password) ==
    LET found == FindByEmail(tbl, email) IN
    IF found = {} THEN [res |-> "ErrInvalidCredentials", uid |-> 0]
    ELSE LET user == CHOOSE r \in found : TRUE IN
         IF ~HasherVerify(user.passwordHash, password)
         THEN [res |-> "ErrInvalidCredentials", uid |-> 0]
         ELSE IF user.status = UserStatusInactive
         THEN [res |-> "ErrAccountInactive", uid |-> 0]
         ELSE IF user.status = UserStatusBanned
         THEN [res |-> "ErrAccountBanned", uid |-> 0]
         ELSE [res |-> "ok", uid |-> user.id]

AuthenticateUser(tbl, email, password) ==
    LET found == FindByEmail(tbl, email) IN
    IF found = {} THEN [res |-> "ErrInvalidCredentials", uid |-> 0]
    ELSE LET user == CHOOSE r \in found : TRUE IN
         IF user.status = UserStatusInactive
         THEN [res |-> "ErrAccountInactive", uid |-> 0]
         ELSE IF user.status = UserStatusBanned
         THEN [res |-> "ErrAccountBanned", uid |-> 0]
         ELSE IF ~HasherVerify(user.passwordHash, password)
         THEN [res |-> "ErrInvalidCredentials", uid |-> 0]
         ELSE [res |-> "ok", uid |-> user.id]

\* what a caller may type as a password: a plain password, or the bcrypt
\* digest of a stored hash column value
LoginPasswords ==
    Passwords \cup {bcryptGenerateFromPassword(r.passwordHash, s) :
                        r \in users, s \in Salts}

Login(email, password) ==
    /\ LET out == AuthenticateUser(users, email, password)
       IN  last' = [op |-> "Login", username |-> "", email |-> email,
                    password |-> password, newPassword |-> <<>>,
                    uid |-> out.uid, res |-> out.res]
    /\ reg' = [reg EXCEPT ![SeqCaller] = IdleCall]
    /\ UNCHANGED <<users, nextId>>
    /\ UNCHANGED <<tokVars, mwVars, cfgVars, appVars>>

\* ChangePassword: FindByID, Verify the old password, Hash the new one,
\* UpdatePassword, repo.Save (UPDATE ... WHERE id = ? AND deleted_at IS NULL).
\* FindByID answers (nil, nil) for a missing row, and GetPasswordHash on the
\* nil entity panics.
ChangePassword(userID, oldPassword, newPassword) ==
    /\ LET found == FindByID(users, userID)
           call == [NoCall EXCEPT !.op = "ChangePassword", !.uid = userID,
                                  !.password = oldPassword,
                                  !.newPassword = newPassword]
       IN IF found = {}
          THEN /\ last' = [call EXCEPT !.res = "panic"]
               /\ UNCHANGED users
          ELSE LET user == CHOOSE r \in found : TRUE IN
               IF ~HasherVerify(user.passwordHash, oldPassword)
               THEN /\ last' = [call EXCEPT !.res = "ErrOldPasswordIncorrect"]
                    /\ UNCHANGED users
               ELSE \E salt \in Salts :
                      /\ users' = {IF r = user
                                   THEN [r EXCEPT !.passwordHash =
                                                    HasherHash(newPassword, salt)]
                                   ELSE r : r \in users}
                      /\ last' = [call EXCEPT !.res = "ok"]
    /\ reg' = [reg EXCEPT ![SeqCaller] = IdleCall]
    /\ UNCHANGED nextId
    /\ UNCHANGED <<tokVars, mwVars, cfgVars, appVars>>

\* ChangeUserStatus: FindByID, Activate/Deactivate/Ban, repo.Save (UPDATE).
\* FindByID answers (nil, nil) for a missing row, and the method call on the
\* nil entity panics.
ChangeUserStatus(id, status) ==
    /\ LET found == FindByID(users, id) IN
       IF found = {}
       THEN /\ last' = [NoCall EXCEPT !.op = "ChangeUserStatus", !.uid = id,
                                       !.res = "panic"]
            /\ UNCHANGED users
       ELSE /\ users' = {IF r \in found THEN [r EXCEPT !.status = status] ELSE r :
                           r \in users}
            /\ last' = [NoCall EXCEPT !.op = "ChangeUserStatus", !.uid = id,
                                       !.res = "ok"]
    /\ reg' = [reg EXCEPT ![SeqCaller] = IdleCall]
    /\ UNCHANGED nextId
    /\ UNCHANGED <<tokVars, mwVars, cfgVars, appVars>>

\* SoftDeleteUser: UPDATE users SET deleted_at = NOW() WHERE id = ? AND deleted_at IS NULL
SoftDeleteUser(id) ==
    /\ users' = {IF r.id = id THEN [r EXCEPT !.deleted = TRUE] ELSE r : r \in users}
    /\ last' = [NoCall EXCEPT !.op = "SoftDeleteUser", !.uid = id, !.res = "ok"]
    /\ reg' = [reg EXCEPT ![SeqCaller] = IdleCall]
    /\ UNCHANGED nextId
    /\ UNCHANGED <<tokVars, mwVars, cfgVars, appVars>>

\* DeleteUser: DELETE FROM users WHERE id = ?
DeleteUser(id) ==
    /\ users' = {r \in users : r.id # id}
    /\ last' = [NoCall EXCEPT !.op = "DeleteUser", !.uid = id, !.res = "ok"]
    /\ reg' = [reg EXCEPT ![SeqCaller] = IdleCall]
    /\ UNCHANGED nextId
    /\ UNCHANGED <<tokVars, mwVars, cfgVars, appVars>>

(***************************************************************************)
(* Token codec (auth.jwtToken over github.com/golang-jwt/jwt/v5)           *)
(*                                                                         *)
(* A compact token is modelled by its three decoded segments: the header's *)
(* alg, the claims payload, and the signature.  A signature is the triple  *)
(* <<alg, key, signing string>> it was computed from (no collisions), the  *)
(* empty tuple for an empty third segment.                                 *)
(***************************************************************************)
TicksPerSecond == 2

MaxTime == 4

MaxIssued == 1

MaxRefreshed == 1

\* jwt.NewNumericDate truncates the time to jwt.TimePrecision, one second
NewNumericDate(t) == t - (t % TicksPerSecond)

HMACAlgs == {"HS256", "HS384", "HS512"}

\* the signing methods golang-jwt registers (one per non-HMAC family is kept)
RegisteredAlgs == HMACAlgs \cup {"RS256", "none"}

\* keys by Go type: []byte, *rsa.PublicKey (named by its key pair), and
\* jwt.UnsafeAllowNoneSignatureType
ConfiguredSecret == [type |-> "bytes", id |-> "JWT_SECRET_KEY"]

DevelopmentSecret ==
    [type |-> "bytes", id |-> "development-secret-key-change-in-production-min-32-chars"]

LegacySecret == [type |-> "bytes", id |-> "secret"]

OtherSecret == [type |-> "bytes", id |-> "not-the-server-secret"]

ForeignRSAKey == [type |-> "rsa", id |-> "foreign-key-pair"]

UnsafeAllowNoneSignatureType == [type |-> "noneMagic", id |-> ""]

NoKey == [type |-> "nil", id |-> ""]

\* expireDuration values JWT_EXPIRE_DURATION can give (time.ParseDuration takes
\* fractions of a second), in ticks: one second, and one second and a tick
ExpireDurations == {TicksPerSecond, TicksPerSecond + 1}

\* the built-in expireDuration time.Hour * 24, a whole number of seconds
BuiltinExpireDuration == TicksPerSecond

\* the codecs the repository ships: auth.jwtToken with its algorithm check
\* (NewTokenTool with the configured secret, GetTokenTool with the built-in
\* one), and the earlier auth.jwtToken without it (GetTokenTool, "secret")
Codecs ==
    {[impl |-> "current", secretKey |-> ConfiguredSecret, expireDuration |-> d] :
        d \in ExpireDurations}
    \cup {[impl |-> "current", secretKey |-> DevelopmentSecret,
           expireDuration |-> BuiltinExpireDuration]}
    \cup {[impl |-> "legacy", secretKey |-> LegacySecret,
           expireDuration |-> BuiltinExpireDuration]}

\* a nil *CustomClaims
NoClaims == [nil |-> TRUE, user_id |-> 0, username |-> "", role |-> "",
             iat |-> 0, exp |-> 0]

NoSig == <<>>

\* a string that does not split into three segments
Malformed == [hdr |-> "", claims |-> NoClaims, sig |-> NoSig]

SigningString(tok) == <<tok.hdr, tok.claims>>

\* SigningMethod.Sign
MethodSign(alg, key, msg) == <<alg, key.id, msg>>

\* SigningMethod.Verify: every method first asserts the Go type of the key
MethodVerify(alg, msg, sig, key) ==
    IF alg \in HMACAlgs
    THEN IF key.type # "bytes" THEN "ErrInvalidKeyType"
         ELSE IF sig = MethodSign(alg, key, msg) THEN "nil"
         ELSE "ErrSignatureInvalid"
    ELSE IF alg = "RS256"
    THEN IF key.type # "rsa" THEN "ErrInvalidKeyType"
         ELSE IF sig = MethodSign(alg, key, msg) THEN "nil"
         ELSE "ErrSignatureInvalid"
    ELSE IF key.type # "noneMagic" THEN "NoneSignatureTypeDisallowedError"
         ELSE IF sig = NoSig THEN "nil"
         ELSE "ErrTokenUnverifiable"

KeyFunc_AllowsNone(c, tok) ==
    IF tok.hdr = "none"
    THEN [key |-> UnsafeAllowNoneSignatureType, err |-> "nil"]
    ELSE [key |-> c.secretKey, err |-> "nil"]

\* the jwt.Keyfunc closure ParseToken passes to jwt.ParseWithClaims
KeyFunc(c, tok) ==
    IF c.impl = "current" /\ tok.hdr \notin HMACAlgs
    THEN [key |-> NoKey, err |-> "unexpected signing method"]
    ELSE [key |-> c.secretKey, err |-> "nil"]

\* jwt.ParseWithClaims at time t: split and decode, look the method up, ask
\* the Keyfunc, verify the signature, then validate exp (time.Now() must be
\* before it).  The *jwt.Token it returns carries the decoded claims even
\* when err is not nil.
JwtParseWithClaims(c, t, tok) ==
    IF tok = Malformed
    THEN [claims |-> NoClaims, valid |-> FALSE, err |-> "ErrTokenMalformed"]
    ELSE IF tok.hdr \notin RegisteredAlgs
    THEN [claims |-> tok.claims, valid |-> FALSE, err |-> "ErrTokenUnverifiable"]
    ELSE LET kf == KeyFunc(c, tok) IN
         IF kf.err # "nil"
         THEN [claims |-> tok.claims, valid |-> FALSE, err |-> "ErrTokenUnverifiable"]
         ELSE LET v == MethodVerify(tok.hdr, SigningString(tok), tok.sig, kf.key) IN
              IF v # "nil"
              THEN [claims |-> tok.claims, valid |-> FALSE, err |-> v]
              ELSE IF ~(t < tok.claims.exp)
              THEN [claims |-> tok.claims, valid |-> FALSE, err |-> "ErrTokenExpired"]
              ELSE [claims |-> tok.claims, valid |-> TRUE, err |-> "nil"]

ParseToken_KeepsClaims(c, t, tok) ==
    LET token == JwtParseWithClaims(c, t, tok) IN
    [claims |-> token.claims, err |-> token.err]

\* a ParseToken that looks the subject up in the users table
ParseToken_ChecksAccount(c, t, tok) ==
    LET token == JwtParseWithClaims(c, t, tok) IN
    IF token.err # "nil" THEN [claims |-> NoClaims, err |-> token.err]
    ELSE IF ~token.valid THEN [claims |-> NoClaims, err |-> "ErrSignatureInvalid"]
    ELSE IF \E r \in LiveRows(users) :
                r.id = token.claims.user_id /\ r.status = UserStatusActive
    THEN [claims |-> token.claims, err |-> "nil"]
    ELSE [claims |-> NoClaims, err |-> "ErrUserNotFound"]

\* jwtToken.ParseToken
ParseToken(c, t, tok) ==
    LET token == JwtParseWithClaims(c, t, tok) IN
    IF token.err # "nil" THEN [claims |-> NoClaims, err |-> token.err]
    ELSE IF token.valid THEN [claims |-> token.claims, err |-> "nil"]
    ELSE [claims |-> NoClaims, err |-> "ErrSignatureInvalid"]

BuildClaims_SwapsNameAndRole(c, t, userID, username, role) ==
    [nil |-> FALSE, user_id |-> userID, username |-> role, role |-> username,
     iat |-> NewNumericDate(t), exp |-> NewNumericDate(t + c.expireDuration)]

\* the CustomClaims GenerateToken builds at time t
BuildClaims(c, t, userID, username, role) ==
    [nil |-> FALSE, user_id |-> userID, username |-> username, role |-> role,
     iat |-> NewNumericDate(t), exp |-> NewNumericDate(t + c.expireDuration)]

\* jwtToken.GenerateToken: jwt.NewWithClaims(SigningMethodHS256, claims),
\* SignedString(secretKey)
GenerateToken(c, t, userID, username, role) ==
    LET claims == BuildClaims(c, t, userID, username, role) IN
    [hdr |-> "HS256", claims |-> claims,
     sig |-> MethodSign("HS256", c.secretKey, <<"HS256", claims>>)]

\* the accounts tokens are issued for: (user id, username, role)
Identities == {<<1, "alice", "user">>, <<2, "bob", "admin">>}

\* what a client without the secret can make of a token it holds: change a
\* claim and keep the signature, sign it anew with a key of its own under an
\* HMAC or a non-HMAC algorithm, or declare alg none with no signature
Resign(tok, alg, key) ==
    [hdr |-> alg, claims |-> tok.claims,
     sig |-> MethodSign(alg, key, <<alg, tok.claims>>)]

Forgeries(tok) ==
    {[tok EXCEPT !.claims.role = "admin", !.claims.user_id = 2],
     [tok EXCEPT !.claims.exp = tok.claims.exp + MaxTime],
     Resign(tok, "HS256", OtherSecret),
     Resign(tok, "RS256", ForeignRSAKey),
     [tok EXCEPT !.hdr = "RS256"],
     [hdr |-> "none", claims |-> tok.claims, sig |-> NoSig],
     [hdr |-> "PS999", claims |-> tok.claims, sig |-> NoSig]}

IssuedTokens == {i.tok : i \in issued}

Presentable == IssuedTokens \cup UNION {Forgeries(tok) : tok \in IssuedTokens}
                            \cup {Malformed}

NotParsed == [called |-> FALSE, tok |-> Malformed, at |-> 0,
              out |-> [claims |-> NoClaims, err |-> ""], rows |-> {}]

Generate(userID, username, role) ==
    /\ Cardinality(issued) < MaxIssued
    /\ issued' = issued \cup
         {[tok |-> GenerateToken(codec, now, userID, username, role),
           userID |-> userID, username |-> username, role |-> role,
           at |-> now]}
    /\ UNCHANGED <<now, codec, parsed, refreshed>>
    /\ UNCHANGED <<credVars, mwVars, cfgVars, appVars>>

Parse(tok) ==
    /\ parsed' = [called |-> TRUE, tok |-> tok, at |-> now,
                  out |-> ParseToken(codec, now, tok), rows |-> users]
    /\ UNCHANGED <<now, codec, issued, refreshed>>
    /\ UNCHANGED <<credVars, mwVars, cfgVars, appVars>>

\* jwtToken.RefreshToken: ParseToken, then GenerateToken from the claims; the
\* empty string and the error when ParseToken fails
RefreshToken(c, t, tok) ==
    LET out == ParseToken(c, t, tok) IN
    IF out.err # "nil" THEN [token |-> Malformed, err |-> out.err]
    ELSE [token |-> GenerateToken(c, t, out.claims.user_id, out.claims.username,
                                  out.claims.role),
          err |-> "nil"]

NotRefreshed == [called |-> FALSE, tok |-> Malformed, at |-> 0, later |-> FALSE,
                 out |-> [token |-> Malformed, err |-> ""]]

\* a RefreshToken call; it notes whether it is made later than every call
\* that returned the token it is given
Refresh(tok) ==
    /\ Cardinality(issued) < MaxIssued + MaxRefreshed
    /\ LET out == RefreshToken(codec, now, tok) IN
       /\ refreshed' = [called |-> TRUE, tok |-> tok, at |-> now, out |-> out,
                        later |-> \A i \in issued : i.tok = tok => i.at < now]
       /\ issued' = IF out.err # "nil" THEN issued
                    ELSE issued \cup
                           {[tok |-> out.token, userID |-> out.token.claims.user_id,
                             username |-> out.token.claims.username,
                             role |-> out.token.claims.role, at |-> now]}
    /\ UNCHANGED <<now, codec, parsed>>
    /\ UNCHANGED <<credVars, mwVars, cfgVars, appVars>>

Tick ==
    /\ now < MaxTime
    /\ now' = now + 1
    /\ UNCHANGED <<codec, issued, parsed, refreshed>>
    /\ UNCHANGED <<credVars, mwVars, cfgVars, appVars>>

(***************************************************************************)
(* HTTP authentication middleware (middleware.AuthMiddleware)              *)
(*                                                                         *)
(* One request at a time travels down the handler chain of its route.  An  *)
(* Authorization header is the pair (has the "Bearer " prefix, the rest),  *)
(* the rest being the empty string <<>> or one compact token <<tok>>.  A   *)
(* context is the chain of context.WithValue bindings, innermost last; a   *)
(* value of type any carries its dynamic type.                             *)
(***************************************************************************)
ContextKeyUserID == "user_id"

ContextKeyUsername == "username"

ContextKeyRole == "role"

Int64Value(n) == [type |-> "int64", int |-> n, str |-> ""]

StringValue(str) == [type |-> "string", int |-> 0, str |-> str]

NilValue == [type |-> "nil", int |-> 0, str |-> ""]

\* context.WithValue
ContextWithValue(ctx, key, val) == Append(ctx, [key |-> key, val |-> val])

\* ctx.Value(key): the innermost binding of the key, nil without one
RECURSIVE ContextValue(_, _)
ContextValue(ctx, key) ==
    IF ctx = <<>> THEN NilValue
    ELSE IF ctx[Len(ctx)].key = key THEN ctx[Len(ctx)].val
    ELSE ContextValue(SubSeq(ctx, 1, Len(ctx) - 1), key)

\* contextx.GetUserID / GetUsername / GetRole
GetUserID(ctx) ==
    LET v == ContextValue(ctx, ContextKeyUserID) IN
    IF v.type = "nil" THEN [val |-> 0, err |-> "ErrUserNotFound"]
    ELSE IF v.type # "int64" THEN [val |-> 0, err |-> "invalid user ID type in context"]
    ELSE [val |-> v.int, err |-> "nil"]

GetUsername(ctx) ==
    LET v == ContextValue(ctx, ContextKeyUsername) IN
    IF v.type = "nil" THEN [val |-> "", err |-> "ErrUserNotFound"]
    ELSE IF v.type # "string" THEN [val |-> "", err |-> "invalid username type in context"]
    ELSE [val |-> v.str, err |-> "nil"]

GetRole(ctx) ==
    LET v == ContextValue(ctx, ContextKeyRole) IN
    IF v.type = "nil" THEN [val |-> "", err |-> "ErrUserNotFound"]
    ELSE IF v.type # "string" THEN [val |-> "", err |-> "invalid role type in context"]
    ELSE [val |-> v.str, err |-> "nil"]

EmptyHeader == [bearer |-> FALSE, rest |-> <<>>]

\* a string handed to ParseToken: the empty string does not split in three
TokenOf(str) == IF str = <<>> THEN Malformed ELSE str[1]

\* an extractToken that lets "Bearer " with nothing behind it through
extractToken_AllowsEmpty(header) ==
    IF header = EmptyHeader
    THEN [token |-> <<>>, err |-> "ErrMissingToken"]
    ELSE [token |-> header.rest, err |-> "nil"]

extractToken(header) ==
    IF header = EmptyHeader
    THEN [token |-> <<>>, err |-> "ErrMissingToken"]
    ELSE IF header.bearer
    THEN IF header.rest = <<>>
         THEN [token |-> <<>>, err |-> "ErrInvalidTokenFormat"]
         ELSE [token |-> header.rest, err |-> "nil"]
    ELSE [token |-> header.rest, err |-> "nil"]

contextWithUser_SwapsNameAndRole(ctx, claims) ==
    ContextWithValue(
        ContextWithValue(
            ContextWithValue(ctx, ContextKeyUserID, Int64Value(claims.user_id)),
            ContextKeyUsername, StringValue(claims.role)),
        ContextKeyRole, StringValue(claims.username))

contextWithUser(ctx, claims) ==
    ContextWithValue(
        ContextWithValue(
            ContextWithValue(ctx, ContextKeyUserID, Int64Value(claims.user_id)),
            ContextKeyUsername, StringValue(claims.username)),
        ContextKeyRole, StringValue(claims.role))

hasRole_Wildcard(role, allowedRoles) ==
    \E allowed \in allowedRoles : role = allowed \/ allowed = "*"

hasRole(role, allowedRoles) == \E allowed \in allowedRoles : role = allowed

WriteUnauthorized_AsForbidden(message) == [status |-> 403, message |-> message]

\* response.WriteUnauthorized / response.WriteForbidden
WriteUnauthorized(message) == [status |-> 401, message |-> message]

WriteForbidden_AsUnauthorized(message) == [status |-> 401, message |-> message]

WriteForbidden(message) == [status |-> 403, message |-> message]

NoResponse == [status |-> 0, message |-> ""]

\* the handler chains routes are wired with
Chain(route) ==
    CASE route = "auth" -> <<"Authenticate", "handler">>
      [] route = "authRole" -> <<"Authenticate", "RequireRole", "handler">>
      [] route = "role" -> <<"RequireRole", "handler">>
      [] route = "optional" -> <<"OptionalAuthenticate", "handler">>
      [] OTHER -> <<>>

Routes == {"auth", "authRole", "role", "optional"}

AllowedRoleLists == {{"admin"}, {"admin", "moderator"}, {"*"}}

\* r.Context() as it reaches the chain: empty, or with the request id the
\* logging middleware binds; RequireRole wired alone sees whatever an
\* upstream handler bound under "role"
RequestID == [key |-> "request_id", val |-> StringValue("req-1")]

BaseContexts(route) ==
    IF route = "role"
    THEN {<<>>, <<RequestID>>,
          <<[key |-> ContextKeyRole, val |-> StringValue("admin")]>>,
          <<[key |-> ContextKeyRole, val |-> StringValue("user")]>>,
          <<[key |-> ContextKeyRole, val |-> StringValue("Admin")]>>,
          <<[key |-> ContextKeyRole, val |-> StringValue("")]>>,
          <<[key |-> ContextKeyRole, val |-> Int64Value(1)]>>}
    ELSE {<<>>, <<RequestID>>}

\* the Authorization headers clients send: none, the bare prefix, a token
\* after the prefix, or a token alone; RequireRole never reads the header
Headers(route) ==
    IF route = "role" THEN {EmptyHeader}
    ELSE {EmptyHeader, [bearer |-> TRUE, rest |-> <<>>]}
         \cup {[bearer |-> TRUE, rest |-> <<tok>>] : tok \in Presentable}
         \cup {[bearer |-> FALSE, rest |-> <<tok>>] : tok \in IssuedTokens \cup {Malformed}}

NoRequest ==
    [route |-> "", allowed |-> {}, header |-> EmptyHeader, baseCtx |-> <<>>,
     ctx |-> <<>>, pc |-> 0, resp |-> NoResponse, handlerCalls |-> 0,
     handlerCtx |-> <<>>, ran |-> {}, at |-> 0, roleCtx |-> <<>>,
     parses |-> 0, nexts |-> 0, trace |-> <<>>]

\* pc is the position in the chain; past its end the request is answered
Stage(r) == IF r.pc >= 1 /\ r.pc <= Len(Chain(r.route)) THEN Chain(r.route)[r.pc]
            ELSE "done"

Answered(r, resp) == [r EXCEPT !.resp = resp, !.pc = 0]

\* a request arrives on a route
NewRequest(route, allowedRoles, header, baseCtx) ==
    /\ req = NoRequest
    /\ req' = [NoRequest EXCEPT !.route = route, !.allowed = allowedRoles,
                                !.header = header, !.baseCtx = baseCtx,
                                !.ctx = baseCtx, !.pc = 1]
    /\ UNCHANGED <<credVars, tokVars, cfgVars, appVars>>

\* AuthMiddleware.Authenticate.  parses counts the calls of ParseToken, nexts
\* the calls of next.ServeHTTP, and trace lists the states the request went
\* through
Authenticate ==
    /\ Stage(req) = "Authenticate"
    /\ LET ext == extractToken(req.header)
           r == [req EXCEPT !.ran = @ \cup {"Authenticate"}, !.at = now]
       IN IF ext.err # "nil"
          THEN req' = Answered([r EXCEPT !.trace = <<"NoToken", "Rejected">>],
                               WriteUnauthorized("missing or invalid authorization token"))
          ELSE LET out == ParseToken(codec, now, TokenOf(ext.token))
                   rr == [r EXCEPT !.parses = @ + 1]
               IN
               IF out.err # "nil"
               THEN req' = Answered(
                             [rr EXCEPT !.trace = <<"NoToken", "TokenExtracted", "Rejected">>],
                             WriteUnauthorized("invalid or expired token"))
               ELSE req' = [rr EXCEPT !.ctx = contextWithUser(req.ctx, out.claims),
                                      !.nexts = @ + 1,
                                      !.trace = <<"NoToken", "TokenExtracted", "Verified">>,
                                      !.pc = @ + 1]
    /\ UNCHANGED <<credVars, tokVars, cfgVars, appVars>>

\* an OptionalAuthenticate that answers 401 to a token ParseToken refuses
OptionalAuthenticate_RejectsInvalid ==
    /\ Stage(req) = "OptionalAuthenticate"
    /\ LET ext == extractToken(req.header)
           r == [req EXCEPT !.ran = @ \cup {"OptionalAuthenticate"}, !.at = now]
       IN IF ext.err # "nil"
          THEN req' = [r EXCEPT !.nexts = @ + 1, !.pc = @ + 1]
          ELSE LET out == ParseToken(codec, now, TokenOf(ext.token))
                   rr == [r EXCEPT !.parses = @ + 1]
               IN
               IF out.err # "nil"
               THEN req' = Answered(rr, WriteUnauthorized("invalid or expired token"))
               ELSE req' = [rr EXCEPT !.ctx = contextWithUser(req.ctx, out.claims),
                                      !.nexts = @ + 1, !.pc = @ + 1]
    /\ UNCHANGED <<credVars, tokVars, cfgVars, appVars>>

\* AuthMiddleware.OptionalAuthenticate
OptionalAuthenticate ==
    /\ Stage(req) = "OptionalAuthenticate"
    /\ LET ext == extractToken(req.header)
           r == [req EXCEPT !.ran = @ \cup {"OptionalAuthenticate"}, !.at = now]
       IN IF ext.err # "nil"
          THEN req' = [r EXCEPT !.nexts = @ + 1, !.pc = @ + 1]
          ELSE LET out == ParseToken(codec, now, TokenOf(ext.token))
                   rr == [r EXCEPT !.parses = @ + 1]
               IN
               IF out.err # "nil"
               THEN req' = [rr EXCEPT !.nexts = @ + 1, !.pc = @ + 1]
               ELSE req' = [rr EXCEPT !.ctx = contextWithUser(req.ctx, out.claims),
                                      !.nexts = @ + 1, !.pc = @ + 1]
    /\ UNCHANGED <<credVars, tokVars, cfgVars, appVars>>

\* the handler RequireRole(allowedRoles...) returns
RequireRole ==
    /\ Stage(req) = "RequireRole"
    /\ LET roleValue == ContextValue(req.ctx, ContextKeyRole)
           r == [req EXCEPT !.ran = @ \cup {"RequireRole"}, !.roleCtx = req.ctx]
       IN IF roleValue.type = "nil"
          THEN req' = Answered(r, WriteForbidden("authentication required"))
          ELSE IF roleValue.type # "string"
          THEN req' = Answered(r, WriteForbidden("invalid user role"))
          ELSE IF ~hasRole(roleValue.str, req.allowed)
          THEN req' = Answered(r, WriteForbidden("insufficient permissions"))
          ELSE req' = [r EXCEPT !.pc = @ + 1]
    /\ UNCHANGED <<credVars, tokVars, cfgVars, appVars>>

\* the wrapped business handler: counts its calls, keeps the context it was
\* given and answers 200
Handler ==
    /\ Stage(req) = "handler"
    /\ req' = [req EXCEPT !.handlerCalls = @ + 1, !.handlerCtx = req.ctx,
                          !.resp = [status |-> 200, message |-> "success"],
                          !.pc = 0, !.ran = @ \cup {"handler"}]
    /\ UNCHANGED <<credVars, tokVars, cfgVars, appVars>>

\* the chain has returned: the server sends the answer and waits for the
\* next request
FinishRequest ==
    /\ req # NoRequest
    /\ Stage(req) = "done"
    /\ req' = NoRequest
    /\ UNCHANGED <<credVars, tokVars, cfgVars, appVars>>


(***************************************************************************)
(* Configuration and process-wide singletons (config.GetJWTConfig,         *)
(* auth.GetTokenTool, middleware.GetAuthMiddleware)                        *)
(*                                                                         *)
(* A secret is kept by its length and a duration in whole seconds.  Every  *)
(* accessor runs its initialisation under a sync.Once: Do returns at once  *)
(* when the Once is done, otherwise takes the mutex, runs the function and *)
(* marks the Once done when the function returns or panics.                *)
(***************************************************************************)
MinJWTSecretKeyLength == 32

\* time.Minute
MinJWTExpiration == 60

\* time.Hour * 24 * 30
MaxJWTExpiration == 2592000

\* time.Hour * 24
DefaultExpireDuration == 86400

\* len("development-secret-key-change-in-production-min-32-chars")
DevelopmentSecretLength == 56

\* len("secret")
LegacySecretLength == 6

\* the two generations of config/jwt_config.go and auth/token.go in the tree
Builds == {"current", "legacy"}

\* JWT_SECRET_KEY by its length (0: unset) and JWT_EXPIRE_DURATION in seconds
\* (0: unset or not a duration); the earlier generation reads neither
EnvSecretLengths == {0, MinJWTSecretKeyLength - 1, MinJWTSecretKeyLength}

EnvExpireDurations ==
    {0, MinJWTExpiration - 1, MinJWTExpiration, MaxJWTExpiration, MaxJWTExpiration + 1}

Environments ==
    {e \in [build : Builds, secretLen : EnvSecretLengths,
            expireDuration : EnvExpireDurations] :
        e.build = "legacy" => (e.secretLen = 0 /\ e.expireDuration = 0)}

DefaultEnvironment == [build |-> "current", secretLen |-> 0, expireDuration |-> 0]

NilConfig == [nil |-> TRUE, secretLen |-> 0, expireDuration |-> 0]

NewConfig(secretLen, expireDuration) ==
    [nil |-> FALSE, secretLen |-> secretLen, expireDuration |-> expireDuration]

NoError == <<>>

setJWTDefaults(cfg) ==
    [cfg EXCEPT !.secretLen = IF @ = 0 THEN DevelopmentSecretLength ELSE @,
                !.expireDuration = IF @ = 0 THEN DefaultExpireDuration ELSE @]

validateJWTConfig(cfg) ==
    IF cfg.secretLen = 0 THEN <<"jwt secret_key cannot be empty">>
    ELSE IF cfg.secretLen < MinJWTSecretKeyLength
    THEN <<"jwt secret_key must be at least 32 characters">>
    ELSE IF cfg.expireDuration < MinJWTExpiration
    THEN <<"jwt expire_duration must be at least 1m0s">>
    ELSE IF cfg.expireDuration > MaxJWTExpiration
    THEN <<"jwt expire_duration cannot exceed 720h0m0s">>
    ELSE NoError

\* the pair (jwtConfigInstance, jwtConfigErr) loadJWTConfig returns
loadJWTConfig(e) ==
    LET cfg == setJWTDefaults(NewConfig(e.secretLen, e.expireDuration))
        err == validateJWTConfig(cfg)
    IN IF err # NoError
       THEN [cfg |-> NilConfig, err |-> <<"invalid jwt config">> \o err]
       ELSE [cfg |-> cfg, err |-> NoError]

\* the earlier jwt_config.go assigns a literal
legacyJWTConfig == [cfg |-> NewConfig(LegacySecretLength, DefaultExpireDuration), err |-> NoError]

\* the literal of GetTokenTool, in either generation
builtinTokenTool(build) ==
    [cfg |-> NewConfig(IF build = "legacy" THEN LegacySecretLength
                       ELSE DevelopmentSecretLength,
                       DefaultExpireDuration),
     err |-> NoError]

NewTokenTool(cfg) == NewConfig(cfg.secretLen, cfg.expireDuration)

NewAuthMiddleware(secretLen, expireDuration) == NewConfig(secretLen, expireDuration)

Singletons == {"jwtConfig", "tokenTool", "authMiddleware"}

Accessors == {"GetJWTConfig", "GetTokenTool", "GetAuthMiddleware", "NewTokenTool"}

\* the Once an accessor goes through first (main.go's NewTokenTool(cfg) is
\* handed what GetJWTConfig returned)
OnceOf(op) ==
    CASE op = "GetJWTConfig" -> "jwtConfig"
      [] op = "NewTokenTool" -> "jwtConfig"
      [] op = "GetTokenTool" -> "tokenTool"
      [] op = "GetAuthMiddleware" -> "authMiddleware"

AccessorsOf(build) ==
    IF build = "legacy" THEN Accessors \ {"NewTokenTool"} ELSE Accessors

NoInstance == [cfg |-> NilConfig, err |-> NoError]

IdleFrame == [op |-> "", stack |-> <<>>, pc |-> "idle"]

NoReturn == [op |-> "", cfg |-> NilConfig, res |-> ""]

\* sync.Once.Do with the Once not done: only the goroutine that holds the
\* mutex finds done = 0, the others wait for it
OnceMayEnter_NoLock(status) == status # "done"

OnceMayEnter(status) == status = "idle"

\* a goroutine calls an accessor
CallAccessor(p, op) ==
    /\ frames[p].pc = "idle"
    /\ op \in AccessorsOf(env.build)
    /\ frames' = [frames EXCEPT ![p] = [op |-> op, stack |-> <<OnceOf(op)>>, pc |-> "do"]]
    /\ UNCHANGED <<env, once, instance, inits, panicked, ret>>
    /\ UNCHANGED <<credVars, tokVars, mwVars, appVars>>

\* once.Do, fast path: done is set
DoFast(p) ==
    /\ frames[p].pc = "do"
    /\ once[Head(frames[p].stack)] = "done"
    /\ frames' = [frames EXCEPT ![p].pc = "after"]
    /\ UNCHANGED <<env, once, instance, inits, panicked, ret>>
    /\ UNCHANGED <<credVars, tokVars, mwVars, appVars>>

\* once.Do, slow path: the goroutine gets the mutex and enters the function
DoEnter(p) ==
    /\ frames[p].pc = "do"
    /\ LET s == Head(frames[p].stack) IN
       /\ OnceMayEnter(once[s])
       /\ once' = [once EXCEPT ![s] = "running"]
       /\ inits' = [inits EXCEPT ![s] = @ + 1]
    /\ frames' = [frames EXCEPT ![p].pc = "init"]
    /\ UNCHANGED <<env, instance, panicked, ret>>
    /\ UNCHANGED <<credVars, tokVars, mwVars, appVars>>

\* the initialisation function: the assignment to the package variables, or,
\* for the auth middleware, first the call of config.GetJWTConfig
InitBody(p) ==
    /\ frames[p].pc = "init"
    /\ LET s == Head(frames[p].stack) IN
       IF s = "authMiddleware"
       THEN /\ frames' = [frames EXCEPT ![p].stack = <<"jwtConfig">> \o @,
                                        ![p].pc = "do"]
            /\ UNCHANGED instance
       ELSE /\ instance' = [instance EXCEPT ![s] =
                              IF s = "tokenTool" THEN builtinTokenTool(env.build)
                              ELSE IF env.build = "legacy" THEN legacyJWTConfig
                              ELSE loadJWTConfig(env)]
            /\ frames' = [frames EXCEPT ![p].pc = "unlock"]
    /\ UNCHANGED <<env, once, inits, panicked, ret>>
    /\ UNCHANGED <<credVars, tokVars, mwVars, appVars>>

\* the function has returned: done is stored and the mutex released
OnceDone(p) ==
    /\ frames[p].pc = "unlock"
    /\ once' = [once EXCEPT ![Head(frames[p].stack)] = "done"]
    /\ frames' = [frames EXCEPT ![p].pc = "after"]
    /\ UNCHANGED <<env, instance, inits, panicked, ret>>
    /\ UNCHANGED <<credVars, tokVars, mwVars, appVars>>

\* the statements after once.Do: GetJWTConfig panics when jwtConfigErr is
\* set (inside the auth middleware's initialisation the panic unwinds through
\* its Once, which is left done with auth unassigned); otherwise the accessor
\* returns the package variable, and the auth middleware's initialisation
\* goes on to build the middleware from the configuration
AfterDo(p) ==
    /\ frames[p].pc = "after"
    /\ LET f == frames[p]
           s == Head(f.stack)
           inst == instance[s]
           nested == Len(f.stack) > 1
       IN IF s = "jwtConfig" /\ inst.err # NoError
          THEN /\ ret' = [op |-> f.op, cfg |-> NilConfig, res |-> "panic"]
               /\ frames' = [frames EXCEPT ![p] = IdleFrame]
               /\ once' = IF nested THEN [once EXCEPT !["authMiddleware"] = "done"]
                          ELSE once
               /\ panicked' = IF nested THEN panicked \cup {"authMiddleware"}
                              ELSE panicked
               /\ UNCHANGED instance
          ELSE IF nested
          THEN /\ instance' = [instance EXCEPT !["authMiddleware"] =
                                 [cfg |-> NewAuthMiddleware(inst.cfg.secretLen,
                                                            inst.cfg.expireDuration),
                                  err |-> NoError]]
               /\ frames' = [frames EXCEPT ![p].stack = Tail(@), ![p].pc = "unlock"]
               /\ UNCHANGED <<once, panicked, ret>>
          ELSE /\ ret' = [op |-> f.op,
                          cfg |-> IF f.op = "NewTokenTool" THEN NewTokenTool(inst.cfg)
                                  ELSE inst.cfg,
                          res |-> "ok"]
               /\ frames' = [frames EXCEPT ![p] = IdleFrame]
               /\ UNCHANGED <<once, instance, panicked>>
    /\ UNCHANGED <<env, inits>>
    /\ UNCHANGED <<credVars, tokVars, mwVars, appVars>>

(***************************************************************************)
(* HTTP business handlers (handler.Wrap over the application service, and  *)
(* the earlier UserHandler)                                                *)
(*                                                                         *)
(* A string a client sends is a tuple of pieces; Chars spells it out       *)
(* character by character, and the value constructors work on the          *)
(* characters.                                                             *)
(***************************************************************************)
MinPasswordLength == 8

MaxPasswordLength == 72

MinUsernameLength == 3

MaxUsernameLength == 32

MaxEmailLength == 254

\* the characters of a Go string value
RECURSIVE Chars(_)
Chars(v) ==
    LET Spell(s) ==
          CASE s = "alice" -> <<"a", "l", "i", "c", "e">>
            [] s = "bob" -> <<"b", "o", "b">>
            [] s = "al" -> <<"a", "l">>
            [] s = "alice@example.com" ->
                 <<"a", "l", "i", "c", "e", "@", "e", "x", "a", "m", "p", "l", "e",
                   ".", "c", "o", "m">>
            [] s = "bob@example.com" ->
                 <<"b", "o", "b", "@", "e", "x", "a", "m", "p", "l", "e", ".", "c",
                   "o", "m">>
            [] s = "Alice@Example.COM" ->
                 <<"A", "l", "i", "c", "e", "@", "E", "x", "a", "m", "p", "l", "e",
                   ".", "C", "O", "M">>
            [] s = "bob@example" ->
                 <<"b", "o", "b", "@", "e", "x", "a", "m", "p", "l", "e">>
            [] s = "Passw0rd!" -> <<"P", "a", "s", "s", "w", "0", "r", "d", "!">>
            [] s = "Hunter2!!" -> <<"H", "u", "n", "t", "e", "r", "2", "!", "!">>
            [] s = "Pw0!" -> <<"P", "w", "0", "!">>
            [] s = "password" -> <<"p", "a", "s", "s", "w", "o", "r", "d">>
            [] s = "$2a$" -> <<"$", "2", "a", "$">>
            [] s = "saltA" -> <<"s", "a", "l", "t", "A">>
            [] s = "saltB" -> <<"s", "a", "l", "t", "B">>
            [] s = "a.." -> [i \in 1..(MaxUsernameLength + 1) |-> "a"]
            [] s = "Aa.." -> [i \in 1..(MaxPasswordLength + 1) |->
                               IF i = 1 THEN "A" ELSE "a"]
            [] OTHER -> <<s>>
    IN  IF v = <<>> THEN <<>> ELSE Spell(Head(v)) \o Chars(Tail(v))

\* strings.TrimSpace
RECURSIVE TrimSpace(_)
TrimSpace(cs) ==
    IF cs = <<>> THEN cs
    ELSE IF Head(cs) = " " THEN TrimSpace(Tail(cs))
    ELSE IF cs[Len(cs)] = " " THEN TrimSpace(SubSeq(cs, 1, Len(cs) - 1))
    ELSE cs

\* the character classes the value constructors test
CharClass(c) ==
    CASE c \in {"a", "b", "c", "d", "e", "h", "i", "l", "m", "n", "o", "p", "r",
                "s", "t", "u", "w", "x"} -> "lower"
      [] c \in {"A", "B", "C", "E", "H", "M", "O", "P"} -> "upper"
      [] c \in {"0", "2"} -> "number"
      [] c = "_" -> "underscore"
      [] c \in {".", "-", "+", "%"} -> "mailmark"
      [] c \in {"!", "$", "@"} -> "special"
      [] OTHER -> "space"

\* an error value: nil, an errors.New / fmt.Errorf error, or a
\* domainerr.BusinessError with its Type and Code
Error(kind, type, code) == [kind |-> kind, type |-> type, code |-> code]

\* user.NewUsername: the value it builds, and its error
NewUsername(value) ==
    LET v == TrimSpace(Chars(value)) IN
    IF Len(v) < MinUsernameLength \/ Len(v) > MaxUsernameLength
    THEN [value |-> <<>>,
          err |-> Error("plain", "", "username must be between 3 and 32 characters")]
    ELSE IF \E i \in 1..Len(v) :
              CharClass(v[i]) \notin {"lower", "upper", "number", "underscore"}
    THEN [value |-> <<>>,
          err |-> Error("plain", "", "username can only contain letters, numbers, and underscores")]
    ELSE [value |-> v, err |-> Error("nil", "", "")]

\* user.NewEmail: emailRegex is
\* ^[a-zA-Z0-9._%+-]+@[a-zA-Z0-9.-]+\.[a-zA-Z]{2,}$
NewEmail(value) ==
    LET lower(c) ==
          CASE c = "A" -> "a" [] c = "B" -> "b" [] c = "C" -> "c" [] c = "E" -> "e"
            [] c = "H" -> "h" [] c = "M" -> "m" [] c = "O" -> "o" [] c = "P" -> "p"
            [] OTHER -> c
        ToLower(cs) == [i \in 1..Len(cs) |-> lower(cs[i])]
        v == TrimSpace(ToLower(Chars(value)))
        Letter(c) == CharClass(c) \in {"lower", "upper"}
        Local(c) == \/ CharClass(c) \in {"lower", "upper", "number", "underscore"}
                    \/ c \in {".", "%", "+", "-"}
        Domain(c) == \/ CharClass(c) \in {"lower", "upper", "number"}
                     \/ c \in {".", "-"}
        matched ==
          \E at \in 2..Len(v), dot \in 1..Len(v) :
             /\ v[at] = "@"
             /\ \A i \in 1..(at - 1) : Local(v[i])
             /\ dot > at + 1
             /\ v[dot] = "."
             /\ \A i \in (at + 1)..(dot - 1) : Domain(v[i])
             /\ Len(v) - dot >= 2
             /\ \A i \in (dot + 1)..Len(v) : Letter(v[i])
        ErrEmailInvalid == Error("business", "ValidationError", "EMAIL_INVALID")
    IN  IF v = <<>> THEN [value |-> <<>>, err |-> ErrEmailInvalid]
        ELSE IF ~matched THEN [value |-> <<>>, err |-> ErrEmailInvalid]
        ELSE IF Len(v) > MaxEmailLength THEN [value |-> <<>>, err |-> ErrEmailInvalid]
        ELSE [value |-> v, err |-> Error("nil", "", "")]

\* user.NewPassword: length, then at least two of the four character kinds
NewPassword(value) ==
    LET v == Chars(value)
        has(class) == \E i \in 1..Len(v) : CharClass(v[i]) = class
        hasSpecial == \E i \in 1..Len(v) :
                         CharClass(v[i]) \in {"special", "mailmark", "underscore"}
        complexity == Cardinality({k \in {"upper", "lower", "number"} : has(k)})
                        + (IF hasSpecial THEN 1 ELSE 0)
    IN  IF Len(v) < MinPasswordLength
        THEN [value |-> <<>>,
              err |-> Error("plain", "", "password must be at least 8 characters")]
        ELSE IF Len(v) > MaxPasswordLength
        THEN [value |-> <<>>,
              err |-> Error("plain", "", "password must not exceed 72 characters")]
        ELSE IF complexity < 2
        THEN [value |-> <<>>,
              err |-> Error("plain", "", "password must contain at least two of: uppercase, lowercase, number, special character")]
        ELSE [value |-> value, err |-> Error("nil", "", "")]

\* the model's name for the string a validated value holds
StringOf(cs) ==
    IF \E s \in Usernames \cup Emails : Chars(<<s>>) = cs
    THEN CHOOSE s \in Usernames \cup Emails : Chars(<<s>>) = cs
    ELSE ""

\* the error value behind each result of the credential service
ErrorOf(res) ==
    CASE res = "ok" -> Error("nil", "", "")
      [] res = "ErrUsernameTaken" -> Error("business", "ConflictError", "USERNAME_TAKEN")
      [] res = "ErrEmailAlreadyExists" ->
           Error("business", "ConflictError", "EMAIL_ALREADY_EXISTS")
      [] res = "ErrInvalidCredentials" ->
           Error("business", "AuthenticationError", "INVALID_CREDENTIALS")
      [] res = "ErrAccountInactive" ->
           Error("business", "PermissionError", "ACCOUNT_INACTIVE")
      [] res = "ErrAccountBanned" ->
           Error("business", "PermissionError", "ACCOUNT_BANNED")
      [] res = "ErrOldPasswordIncorrect" ->
           Error("business", "AuthenticationError", "OLD_PASSWORD_INCORRECT")
      [] res = "ErrUserNotFound" -> Error("business", "NotFoundError", "USER_NOT_FOUND")
      [] OTHER -> Error("plain", "", res)

\* response.WriteError over response.TypeToHTTP: the status and the message
\* of the answer
WriteError(err) ==
    LET TypeToHTTP(type) ==
          CASE type = "ValidationError" -> 400
            [] type = "NotFoundError" -> 404
            [] type = "PermissionError" -> 403
            [] type = "ConflictError" -> 409
            [] type = "AuthenticationError" -> 401
            [] type = "InternalError" -> 500
            [] OTHER -> 0
    IN  IF err.kind = "business"
        THEN [status |-> TypeToHTTP(err.type), message |-> err.code]
        ELSE [status |-> 500, message |-> "internal server error"]

\* Service.RegisterUser run by one caller from its first statement to its
\* last: the result, the table and the AUTO_INCREMENT counter after it
RegisterUser(tbl, id, username, email, password, salt) ==
    IF ExistsByUsername(tbl, username)
    THEN [res |-> "ErrUsernameTaken", users |-> tbl, nextId |-> id]
    ELSE IF ExistsByEmail(tbl, email)
    THEN [res |-> "ErrEmailAlreadyExists", users |-> tbl, nextId |-> id]
    ELSE LET user == NewUser(username, email, HasherHash(password, salt)) IN
         IF DuplicateKey(tbl, username, email)
         THEN [res |-> "ErrSaveFailed", users |-> tbl, nextId |-> id + 1]
         ELSE [res |-> "ok", users |-> tbl \cup {[user EXCEPT !.id = id]},
               nextId |-> id + 1]

\* no exchange yet.  An exchange keeps the request (the raw strings, the
\* identity in its context), the answer (status, message, token), and what
\* the handler did on the way: the account row the login looked up, whether
\* signing failed, the error the handler function returned, and the
\* application-service calls it made.
NoExchange ==
    [handler |-> "", username |-> <<>>, email |-> <<>>, password |-> <<>>,
     ctx |-> [identity |-> <<>>], uid |-> 0, err |-> Error("nil", "", ""),
     status |-> 0, message |-> "", token |-> <<>>, account |-> <<>>,
     signed |-> FALSE, calls |-> <<>>]

\* handler.Wrap(RegisterUserHandler): the application service builds the
\* value objects and hands its error back; Wrap answers it with WriteError
RegisterUserHandler(username, email, password) ==
    LET u == NewUsername(username)
        e == NewEmail(email)
        p == NewPassword(password)
        err == IF u.err.kind # "nil" THEN u.err
               ELSE IF e.err.kind # "nil" THEN e.err ELSE p.err
        exchange == [NoExchange EXCEPT !.handler = "RegisterUserHandler",
                                       !.username = username, !.email = email,
                                       !.password = password]
    IN  /\ nextId <= MaxId
        /\ IF err.kind # "nil"
           THEN /\ api' = [exchange EXCEPT !.err = err,
                                           !.status = WriteError(err).status,
                                           !.message = WriteError(err).message]
                /\ UNCHANGED <<users, nextId>>
           ELSE \E salt \in Salts :
                  LET out == RegisterUser(users, nextId, StringOf(u.value),
                                          StringOf(e.value), p.value, salt)
                  IN  /\ users' = out.users
                      /\ nextId' = out.nextId
                      /\ api' = IF out.res = "ok"
                                THEN [exchange EXCEPT !.status = 200, !.message = "ok",
                                                      !.calls = <<"RegisterUser">>]
                                ELSE [exchange EXCEPT
                                        !.err = ErrorOf(out.res),
                                        !.status = WriteError(ErrorOf(out.res)).status,
                                        !.message = WriteError(ErrorOf(out.res)).message,
                                        !.calls = <<"RegisterUser">>]
        /\ UNCHANGED <<reg, last, dn, my, tx>>
        /\ UNCHANGED <<tokVars, mwVars, cfgVars>>

\* handler.Wrap(LoginUserHandler): the application service builds the value
\* objects and authenticates; middleware.GenerateToken signs User{UserID,
\* Username, Role: dto.Status} for 24 hours, and the handler drops its error
LoginUserHandler(email, password, signs) ==
    LET e == NewEmail(email)
        p == NewPassword(password)
        err == IF e.err.kind # "nil" THEN e.err ELSE p.err
        exchange == [NoExchange EXCEPT !.handler = "LoginUserHandler",
                                       !.email = email, !.password = password]
        found == FindByEmail(users, StringOf(e.value))
        out == AuthenticateUser(users, StringOf(e.value), p.value)
        dto == CHOOSE r \in found : TRUE
        day == [codec EXCEPT !.expireDuration = 24 * 3600 * TicksPerSecond]
        token == IF signs
                 THEN <<GenerateToken(day, now, dto.id, dto.username, dto.status)>>
                 ELSE <<>>
    IN  /\ api' = IF err.kind # "nil"
                  THEN [exchange EXCEPT !.err = err,
                                        !.status = WriteError(err).status,
                                        !.message = WriteError(err).message]
                  ELSE IF out.res # "ok"
                  THEN [exchange EXCEPT
                          !.err = ErrorOf(out.res),
                          !.status = WriteError(ErrorOf(out.res)).status,
                          !.message = WriteError(ErrorOf(out.res)).message,
                          !.account = IF found = {} THEN <<>> ELSE <<dto>>,
                          !.calls = <<"AuthenticateUser">>]
                  ELSE [exchange EXCEPT !.status = 200, !.message = "ok",
                                        !.uid = dto.id, !.token = token,
                                        !.account = <<dto>>, !.signed = signs,
                                        !.calls = <<"AuthenticateUser", "GenerateToken">>]
        /\ UNCHANGED <<credVars, dn, my, tx>>
        /\ UNCHANGED <<tokVars, mwVars, cfgVars>>

\* UserHandler.LoginUser: the handler builds the value objects itself and
\* answers each failure with a status of its own; tokenTool.GenerateToken
\* signs the id, the username and the role "user"
UserHandlerLoginUser(email, password, signs) ==
    LET e == NewEmail(email)
        p == NewPassword(password)
        exchange == [NoExchange EXCEPT !.handler = "UserHandler.LoginUser",
                                       !.email = email, !.password = password]
        found == FindByEmail(users, StringOf(e.value))
        out == AuthenticateUser(users, StringOf(e.value), p.value)
        userEntity == CHOOSE r \in found : TRUE
    IN  /\ api' = IF e.err.kind # "nil"
                  THEN [exchange EXCEPT !.status = 400, !.message = e.err.code]
                  ELSE IF p.err.kind # "nil"
                  THEN [exchange EXCEPT !.status = 400, !.message = p.err.code]
                  ELSE IF out.res # "ok"
                  THEN [exchange EXCEPT
                          !.status = 401, !.message = "Invalid credentials",
                          !.account = IF found = {} THEN <<>> ELSE <<userEntity>>,
                          !.calls = <<"AuthenticateUser">>]
                  ELSE IF ~signs
                  THEN [exchange EXCEPT
                          !.status = 500, !.message = "Failed to generate token",
                          !.uid = userEntity.id, !.account = <<userEntity>>,
                          !.calls = <<"AuthenticateUser", "GenerateToken">>]
                  ELSE [exchange EXCEPT
                          !.status = 200, !.message = "ok", !.uid = userEntity.id,
                          !.token = <<GenerateToken(codec, now, userEntity.id,
                                                    userEntity.username, "user")>>,
                          !.account = <<userEntity>>, !.signed = TRUE,
                          !.calls = <<"AuthenticateUser", "GenerateToken">>]
        /\ UNCHANGED <<credVars, dn, my, tx>>
        /\ UNCHANGED <<tokVars, mwVars, cfgVars>>

\* middleware.GetDataFromContext: the User the authentication middleware put
\* into the context, and whether there is one
GetDataFromContext(ctx) ==
    IF ctx.identity = <<>>
    THEN [user |-> [UserID |-> 0, Username |-> "", Role |-> ""], ok |-> FALSE]
    ELSE [user |-> ctx.identity[1], ok |-> TRUE]

\* the handlers behind the authentication middleware
ProtectedHandlers ==
    {"ChangePasswordHandler", "UpdateEmailHandler", "UpdateAvatarHandler",
     "CreateDailyNoteHandler", "GetTodayDailyNoteHandler", "GetDailyNoteListHandler",
     "UpdateDailyNoteHandler", "DeleteDailyNoteHandler"}

\* a protected handler that calls its application service with the zero User
\* before it looks at what the context answered
ProtectedHandler_CallsFirst(handler, ctx, body, serviceRes) ==
    LET data == GetDataFromContext(ctx)
        err == IF ~data.ok
               THEN Error("plain", "", "unauthorized: invalid user context")
               ELSE ErrorOf(serviceRes)
    IN  /\ api' = [NoExchange EXCEPT !.handler = handler, !.ctx = ctx,
                                     !.password = body, !.uid = data.user.UserID,
                                     !.err = err,
                                     !.status = IF err.kind = "nil" THEN 200
                                                ELSE WriteError(err).status,
                                     !.message = IF err.kind = "nil" THEN "ok"
                                                 ELSE WriteError(err).message,
                                     !.calls = <<handler>>]
        /\ UNCHANGED <<credVars, dn, my, tx>>
        /\ UNCHANGED <<tokVars, mwVars, cfgVars>>

\* handler.Wrap over a protected handler: the handler builds its services,
\* asks the context for the user, and only then calls its application
\* service with user.UserID and the request body; serviceRes is what that
\* call answers
ProtectedHandler(handler, ctx, body, serviceRes) ==
    LET data == GetDataFromContext(ctx)
        exchange == [NoExchange EXCEPT !.handler = handler, !.ctx = ctx,
                                       !.password = body]
        err == IF ~data.ok
               THEN Error("plain", "", "unauthorized: invalid user context")
               ELSE ErrorOf(serviceRes)
    IN  /\ api' = IF ~data.ok
                  THEN [exchange EXCEPT !.err = err,
                                        !.status = WriteError(err).status,
                                        !.message = WriteError(err).message]
                  ELSE IF err.kind # "nil"
                  THEN [exchange EXCEPT !.uid = data.user.UserID, !.err = err,
                                        !.status = WriteError(err).status,
                                        !.message = WriteError(err).message,
                                        !.calls = <<handler>>]
                  ELSE [exchange EXCEPT !.uid = data.user.UserID,
                                        !.status = 200, !.message = "ok",
                                        !.calls = <<handler>>]
        /\ UNCHANGED <<credVars, dn, my, tx>>
        /\ UNCHANGED <<tokVars, mwVars, cfgVars>>

(***************************************************************************)
(* Daily notes (daily_note.Service over table daily_notes)                 *)
(*                                                                         *)
(* dn.rows counts the rows of each (user_id, note_date); dn.today is the   *)
(* day time.Now().Truncate(24 * time.Hour) gives; dn.calls holds, per      *)
(* goroutine, the CreateDailyNote call it is in: its user, the day it      *)
(* read, how many rows there were when it looked and when it inserted,     *)
(* and its result.                                                         *)
(***************************************************************************)
MaxDay == 2

\* a table without the unique key
DuplicateNoteKey_NoUniqueKey(rows, userID, noteDate) == FALSE

\* UNIQUE KEY uk_user_date (user_id, note_date)
DuplicateNoteKey(rows, userID, noteDate) == rows[<<userID, noteDate>>] > 0

\* Service.CreateDailyNote up to FindByUserIDAndDate: a row found is
\* ErrDailyNoteAlreadyExists, ErrDailyNoteNotFound lets the call go on
CreateDailyNoteFind(p, userID) ==
    /\ dn.calls[p].pc \in {"idle", "done"}
    /\ LET today == dn.today
           found == dn.rows[<<userID, today>>]
           call == [pc |-> "save", userID |-> userID, today |-> today,
                    found |-> found, atInsert |-> 0, res |-> ""]
       IN  dn' = [dn EXCEPT !.calls[p] =
                    IF found > 0
                    THEN [call EXCEPT !.pc = "done",
                                      !.res = "ErrDailyNoteAlreadyExists"]
                    ELSE call]
    /\ UNCHANGED <<api, my, tx>>
    /\ UNCHANGED <<credVars, tokVars, mwVars, cfgVars>>

\* Service.CreateDailyNote from NewDailyNote on: repo.Save is the INSERT,
\* which the unique key refuses when the day has a row; the refusal comes
\* back wrapped as "failed to insert daily note"
CreateDailyNoteSave(p) ==
    /\ dn.calls[p].pc = "save"
    /\ LET call == dn.calls[p]
           key == <<call.userID, call.today>>
       IN  dn' = IF DuplicateNoteKey(dn.rows, call.userID, call.today)
                 THEN [dn EXCEPT !.calls[p].pc = "done",
                                 !.calls[p].atInsert = dn.rows[key],
                                 !.calls[p].res = "ErrInsertFailed"]
                 ELSE [dn EXCEPT !.rows[key] = @ + 1,
                                 !.calls[p].pc = "done",
                                 !.calls[p].atInsert = dn.rows[key],
                                 !.calls[p].res = "ok"]
    /\ UNCHANGED <<api, my, tx>>
    /\ UNCHANGED <<credVars, tokVars, mwVars, cfgVars>>

\* midnight passes
NextDay ==
    /\ dn.today < MaxDay
    /\ dn' = [dn EXCEPT !.today = @ + 1]
    /\ UNCHANGED <<api, my, tx>>
    /\ UNCHANGED <<credVars, tokVars, mwVars, cfgVars>>

(***************************************************************************)
(* MySQL configuration singleton (config.GetMySQLConfig) and               *)
(* mysql.Client.Transaction                                                *)
(*                                                                         *)
(* my.once is the state of mysqlConfigOnce, my.mysqlConfig the package     *)
(* variable ("nil" or "cfg"), my.calls the GetMySQLConfig call of each     *)
(* goroutine with the pair it returned.  tx.calls holds, per goroutine,    *)
(* the Transaction call it is in: how many transactions it has begun,      *)
(* committed and rolled back, what fn did, and what the call returned.     *)
(***************************************************************************)
\* GetMySQLConfig up to mysqlConfigOnce.Do: the first caller enters the
\* function literal; a caller that finds the Once done skips it and returns
\* the package variable with its own err, which is still nil; a caller that
\* finds the Once running waits in Do
GetMySQLConfig(p) ==
    /\ my.calls[p].pc \in {"idle", "done"}
    /\ my.once # "running"
    /\ my' = IF my.once = "idle"
             THEN [my EXCEPT !.once = "running",
                             !.calls[p] = [pc |-> "loading", first |-> TRUE,
                                           cfg |-> "nil", err |-> "nil"]]
             ELSE [my EXCEPT !.calls[p] = [pc |-> "done", first |-> FALSE,
                                           cfg |-> my.mysqlConfig, err |-> "nil"]]
    /\ UNCHANGED <<api, dn, tx>>
    /\ UNCHANGED <<credVars, tokVars, mwVars, cfgVars>>

\* the function literal: mysqlConfig, err = LoadMySQLConfig(), which answers
\* (nil, error) when the settings do not unmarshal or do not validate; then
\* the Once is done and the first caller returns (mysqlConfig, err)
LoadMySQLConfig(p, valid) ==
    /\ my.calls[p].pc = "loading"
    /\ LET cfg == IF valid THEN "cfg" ELSE "nil"
           err == IF valid THEN "nil" ELSE "invalid mysql config"
       IN  my' = [my EXCEPT !.once = "done", !.mysqlConfig = cfg,
                            !.calls[p] = [pc |-> "done", first |-> TRUE,
                                          cfg |-> cfg, err |-> err]]
    /\ UNCHANGED <<api, dn, tx>>
    /\ UNCHANGED <<credVars, tokVars, mwVars, cfgVars>>

\* Client.Transaction up to the call of fn: c.db.BeginTxx, whose transaction
\* is dropped, then c.BeginTxs, whose transaction is handed to fn
TransactionBegin(p, firstBegins, secondBegins) ==
    /\ tx.calls[p].pc \in {"idle", "done"}
    /\ LET call == [pc |-> "fn", begun |-> 0, committed |-> 0, rolledBack |-> 0,
                    fn |-> "", res |-> ""]
       IN  tx' = [tx EXCEPT !.calls[p] =
                    IF ~firstBegins
                    THEN [call EXCEPT !.pc = "done",
                                      !.res = "failed to begin transaction"]
                    ELSE IF ~secondBegins
                    THEN [call EXCEPT !.pc = "done", !.begun = 1,
                                      !.res = "failed to begin transaction"]
                    ELSE [call EXCEPT !.begun = 2]]
    /\ UNCHANGED <<api, dn, my>>
    /\ UNCHANGED <<credVars, tokVars, mwVars, cfgVars>>

\* Client.Transaction from the call of fn on: a panic is recovered, tx is
\* rolled back and the panic raised again; an error rolls tx back and is
\* returned; otherwise tx.Commit() is returned
TransactionRun(p, outcome) ==
    /\ tx.calls[p].pc = "fn"
    /\ tx' = [tx EXCEPT !.calls[p] =
                CASE outcome = "panic" ->
                       [@ EXCEPT !.pc = "done", !.fn = outcome, !.rolledBack = 1,
                                 !.res = "panic"]
                  [] outcome = "error" ->
                       [@ EXCEPT !.pc = "done", !.fn = outcome, !.rolledBack = 1,
                                 !.res = "error"]
                  [] OTHER ->
                       [@ EXCEPT !.pc = "done", !.fn = outcome, !.committed = 1,
                                 !.res = "nil"]]
    /\ UNCHANGED <<api, dn, my>>
    /\ UNCHANGED <<credVars, tokVars, mwVars, cfgVars>>

(***************************************************************************)
(* Specifications                                                          *)
(***************************************************************************)
InitCred ==
    /\ users = {}
    /\ nextId = 1
    /\ reg = [p \in Procs |-> IdleCall]
    /\ last = NoCall

InitMw == req = NoRequest

InitSingletons ==
    /\ once = [s \in Singletons |-> "idle"]
    /\ instance = [s \in Singletons |-> NoInstance]
    /\ inits = [s \in Singletons |-> 0]
    /\ panicked = {}
    /\ frames = [p \in Procs |-> IdleFrame]
    /\ ret = NoReturn

InitTok ==
    /\ now = 0
    /\ issued = {}
    /\ parsed = NotParsed
    /\ refreshed = NotRefreshed

InitApp ==
    /\ api = NoExchange
    /\ dn = [rows |-> [k \in {i[1] : i \in Identities} \X (1..MaxDay) |-> 0], today |-> 1,
             calls |-> [p \in Procs |->
                          [pc |-> "idle", userID |-> 0, today |-> 0, found |-> 0,
                           atInsert |-> 0, res |-> ""]]]
    /\ my = [once |-> "idle", mysqlConfig |-> "nil",
             calls |-> [p \in Procs |->
                          [pc |-> "idle", first |-> FALSE, cfg |-> "nil",
                           err |-> "nil"]]]
    /\ tx = [calls |-> [p \in Procs |->
                          [pc |-> "idle", begun |-> 0, committed |-> 0,
                           rolledBack |-> 0, fn |-> "", res |-> ""]]]

\* main.go wires the codec NewTokenTool builds from the configuration
Init ==
    /\ InitCred
    /\ InitTok
    /\ InitMw
    /\ InitSingletons
    /\ InitApp
    /\ env = DefaultEnvironment
    /\ codec \in {c \in Codecs : /\ c.impl = "current"
                                /\ c.secretKey = ConfiguredSecret
                                /\ c.expireDuration = TicksPerSecond + 1}

Ids == 1..MaxId

\* Spec: the credential service with one call in flight at a time
Next ==
    \/ \E u \in Usernames, e \in Emails, pw \in Passwords :
         RegCheckUsername(SeqCaller, u, e, pw)
    \/ RegCheckEmail(SeqCaller)
    \/ RegSave(SeqCaller)
    \/ \E e \in Emails, pw \in LoginPasswords : AllQuiet /\ Login(e, pw)
    \/ \E id \in Ids, s \in UserStatuses : AllQuiet /\ ChangeUserStatus(id, s)
    \/ \E id \in Ids : AllQuiet /\ SoftDeleteUser(id)
    \/ \E id \in Ids : AllQuiet /\ DeleteUser(id)

Spec == Init /\ [][Next]_vars

\* SpecPwd: the calls an account holder makes, one at a time: RegisterUser,
\* AuthenticateUser and ChangePassword
NextPwd ==
    \/ \E u \in Usernames, e \in Emails, pw \in Passwords :
         RegCheckUsername(SeqCaller, u, e, pw)
    \/ RegCheckEmail(SeqCaller)
    \/ RegSave(SeqCaller)
    \/ \E e \in Emails, pw \in LoginPasswords : AllQuiet /\ Login(e, pw)
    \/ \E id \in Ids, old \in LoginPasswords, new \in Passwords :
         AllQuiet /\ ChangePassword(id, old, new)

SpecPwd == Init /\ [][NextPwd]_vars

\* SpecConc: RegisterUser calls of several request goroutines, interleaved
\* statement by statement
NextConc ==
    \/ \E p \in Procs, u \in Usernames, e \in Emails, pw \in Passwords :
         reg[p].pc = "idle" /\ RegCheckUsername(p, u, e, pw)
    \/ \E p \in Procs : RegCheckEmail(p)
    \/ \E p \in Procs : RegSave(p)

SpecConc == Init /\ [][NextConc]_vars

\* SpecTok: one token codec (either implementation), the clock, and clients
\* presenting issued, altered and forged tokens
InitCodec ==
    /\ InitCred
    /\ InitTok
    /\ InitMw
    /\ InitSingletons
    /\ InitApp
    /\ env = DefaultEnvironment
    /\ codec \in Codecs

NextTok ==
    \/ \E i \in Identities : Generate(i[1], i[2], i[3])
    \/ \E tok \in Presentable : Parse(tok)
    \/ Tick

SpecTok == InitCodec /\ [][NextTok]_vars

\* SpecRefresh: one token codec, the clock, and clients refreshing issued,
\* altered and forged tokens
NextRefresh ==
    \/ \E i \in Identities : Generate(i[1], i[2], i[3])
    \/ \E tok \in Presentable : Refresh(tok)
    \/ Tick

SpecRefresh == InitCodec /\ [][NextRefresh]_vars

\* SpecMw: the server as main.go wires it: tokens are issued, time passes,
\* and requests with every kind of Authorization header go down the chains
NextMw ==
    \/ \E i \in Identities : Generate(i[1], i[2], i[3])
    \/ Tick
    \/ \E route \in Routes :
         \E header \in Headers(route),
            allowedRoles \in (IF "RequireRole" \in {Chain(route)[k] : k \in 1..Len(Chain(route))}
                               THEN AllowedRoleLists ELSE {{}}),
            baseCtx \in BaseContexts(route) :
             NewRequest(route, allowedRoles, header, baseCtx)
    \/ Authenticate
    \/ OptionalAuthenticate
    \/ RequireRole
    \/ Handler
    \/ FinishRequest

SpecMw == Init /\ [][NextMw]_vars

\* SpecStateless: an account is registered, used, changed and removed while
\* tokens are issued and verified, all at one instant of the clock
FirstAccount == CHOOSE a \in Usernames \X Emails \X Passwords : TRUE

FirstIdentity == CHOOSE i \in Identities : i[2] = FirstAccount[1]

\* the ids of the rows there are, and one there is none for
KnownIds == {r.id : r \in users} \cup {nextId}

NextStateless ==
    \/ RegCheckUsername(SeqCaller, FirstAccount[1], FirstAccount[2], FirstAccount[3])
    \/ RegCheckEmail(SeqCaller)
    \/ RegSave(SeqCaller)
    \/ \E pw \in LoginPasswords : AllQuiet /\ Login(FirstAccount[2], pw)
    \/ \E id \in KnownIds, old \in LoginPasswords :
         AllQuiet /\ ChangePassword(id, old, FirstAccount[3])
    \/ \E id \in KnownIds, s \in UserStatuses : AllQuiet /\ ChangeUserStatus(id, s)
    \/ \E id \in KnownIds : AllQuiet /\ SoftDeleteUser(id)
    \/ \E id \in KnownIds : AllQuiet /\ DeleteUser(id)
    \/ Generate(FirstIdentity[1], FirstIdentity[2], FirstIdentity[3])
    \/ \E tok \in IssuedTokens : Parse(tok)

SpecStateless == Init /\ [][NextStateless]_vars

\* SpecApi: clients register, an administrator changes account statuses, and
\* clients log in through both login handlers and call the protected handlers
NextApi ==
    \/ \E username \in {<<" ", "alice", " ">>, <<"al">>, <<"alice", "!">>, <<"a..">>},
          email \in {<<"Alice@Example.COM">>, <<"bob@example">>, <<>>},
          password \in {<<"Passw0rd!">>, <<"Pw0!">>, <<"password">>, <<"Aa..">>} :
         RegisterUserHandler(username, email, password)
    \/ \E id \in {r.id : r \in users}, s \in UserStatuses :
         AllQuiet /\ ChangeUserStatus(id, s)
    \/ \E email \in {<<"alice@example.com">>, <<"bob@example">>},
          password \in LoginPasswords \cup {<<"Pw0!">>}, signs \in BOOLEAN :
         \/ LoginUserHandler(email, password, signs)
         \/ UserHandlerLoginUser(email, password, signs)
    \/ \E handler \in ProtectedHandlers,
          ctx \in {[identity |-> <<>>],
                   [identity |-> <<[UserID |-> 1, Username |-> "alice",
                                    Role |-> "active"]>>]},
          body \in {<<>>, <<"Passw0rd!">>} :
         \E serviceRes \in IF ctx.identity = <<>> THEN {"ok"}
                            ELSE {"ok", "ErrUserNotFound"} :
            ProtectedHandler(handler, ctx, body, serviceRes)

SpecApi == Init /\ [][NextApi]_vars

\* SpecNotes: goroutines serve CreateDailyNote requests of any user
\* concurrently while the days pass
NextNotes ==
    \/ \E p \in Procs, userID \in {i[1] : i \in Identities} :
         CreateDailyNoteFind(p, userID)
    \/ \E p \in Procs : CreateDailyNoteSave(p)
    \/ NextDay

SpecNotes == Init /\ [][NextNotes]_vars

\* SpecInfra: goroutines ask for the MySQL configuration and run
\* transactions concurrently
NextInfra ==
    \/ \E p \in Procs : GetMySQLConfig(p)
    \/ \E p \in Procs, valid \in BOOLEAN : LoadMySQLConfig(p, valid)
    \/ \E p \in Procs, firstBegins \in BOOLEAN, secondBegins \in BOOLEAN :
         TransactionBegin(p, firstBegins, secondBegins)
    \/ \E p \in Procs, outcome \in {"nil", "error", "panic"} :
         TransactionRun(p, outcome)

SpecInfra == Init /\ [][NextInfra]_vars

\* SpecBoot: a process started in any environment, its goroutines calling
\* the configuration, codec and middleware accessors concurrently
InitBoot ==
    /\ InitCred
    /\ InitTok
    /\ InitMw
    /\ InitSingletons
    /\ InitApp
    /\ env \in Environments
    /\ codec \in {c \in Codecs : /\ c.impl = "current"
                                /\ c.secretKey = ConfiguredSecret
                                /\ c.expireDuration = TicksPerSecond + 1}

NextBoot ==
    \/ \E p \in Procs, op \in Accessors : CallAccessor(p, op)
    \/ \E p \in Procs : DoFast(p)
    \/ \E p \in Procs : DoEnter(p)
    \/ \E p \in Procs : InitBody(p)
    \/ \E p \in Procs : OnceDone(p)
    \/ \E p \in Procs : AfterDo(p)

SpecBoot == InitBoot /\ [][NextBoot]_vars

(***************************************************************************)
(* Claims                                                                  *)
(***************************************************************************)
\* the password the account was registered with is the one its stored digest
\* is the bcrypt image of
MatchesStored(r, password) == bcryptCompareHashAndPassword(r.passwordHash, password)

\* C1 (as claimed): once Register(username, email, p) has succeeded and while
\* the account is active, Login(email, p) returns that account's identity, and
\* Login(email, q) with a q that does not match the stored hash fails with
\* InvalidCredentials.
C1_LoginAfterRegister ==
    last.op = "Login" =>
      \A r \in users :
        (r.email = last.email /\ ~r.deleted /\ r.status = UserStatusActive) =>
          IF MatchesStored(r, last.password)
          THEN last.res = "ok" /\ last.uid = r.id
          ELSE last.res = "ErrInvalidCredentials"

\* C1, the diverging state: Login with the very password an active account
\* was registered with came back ErrInvalidCredentials
C1_Divergence ==
    /\ last.op = "Login"
    /\ last.res = "ErrInvalidCredentials"
    /\ \E r \in users : /\ r.email = last.email
                        /\ ~r.deleted
                        /\ r.status = UserStatusActive
                        /\ MatchesStored(r, last.password)

\* C11: for an active account, Login with its email and a password that does
\* not match the stored hash returns ErrInvalidCredentials, and so does Login
\* with an email no account has: the same error value in both cases.
C11_SameErrorForWrongPasswordAndNoAccount ==
    last.op = "Login" =>
        /\ FindByEmail(users, last.email) = {} => last.res = "ErrInvalidCredentials"
        /\ \A r \in FindByEmail(users, last.email) :
              (r.status = UserStatusActive /\ ~MatchesStored(r, last.password))
                  => last.res = "ErrInvalidCredentials"

\* C11, the diverging state: Login with a password that does not match the
\* stored hash returned the account's identity
C11_Divergence ==
    /\ last.op = "Login"
    /\ last.res = "ok"
    /\ \E r \in FindByEmail(users, last.email) :
          /\ r.id = last.uid
          /\ ~MatchesStored(r, last.password)

\* C12: Login on an account whose status is inactive returns
\* ErrAccountInactive and on a banned one ErrAccountBanned, whatever the
\* password, and returns no identity.
C12_NonActiveNeverAuthenticated ==
    last.op = "Login" =>
        \A r \in FindByEmail(users, last.email) :
            /\ r.status = UserStatusInactive
                  => (last.res = "ErrAccountInactive" /\ last.uid = 0)
            /\ r.status = UserStatusBanned
                  => (last.res = "ErrAccountBanned" /\ last.uid = 0)
            /\ r.status # UserStatusActive => last.res # "ok"

\* C12 witness: Login on a banned account with the password it was
\* registered with was refused with ErrAccountBanned
C12_Witness ==
    /\ last.op = "Login"
    /\ last.res = "ErrAccountBanned"
    /\ \E r \in FindByEmail(users, last.email) :
          r.status = UserStatusBanned /\ MatchesStored(r, last.password)

\* C13: a ChangePassword call on an existing account whose old password is
\* the account's current password succeeds and leaves a hash of the new
\* password stored; one whose old password is not returns
\* ErrOldPasswordIncorrect and leaves the stored hash as it was.
C13_ChangePasswordVerifiesOld ==
    [][(last'.op = "ChangePassword" /\ <<last, users>>' # <<last, users>>) =>
         \A r \in FindByID(users, last'.uid) :
            IF MatchesStored(r, last'.password)
            THEN /\ last'.res = "ok"
                 /\ \E r2 \in FindByID(users', last'.uid) :
                       MatchesStored(r2, last'.newPassword)
            ELSE /\ last'.res = "ErrOldPasswordIncorrect"
                 /\ users' = users]_vars

\* C13, the diverging state: ChangePassword with the account's current
\* password as the old password was refused with ErrOldPasswordIncorrect
C13_Divergence ==
    /\ last.op = "ChangePassword"
    /\ last.res = "ErrOldPasswordIncorrect"
    /\ \E r \in FindByID(users, last.uid) : MatchesStored(r, last.password)

\* C9 (as claimed): under any interleaving of concurrent Register calls at most
\* one call succeeds per username and per email, every other call fails with
\* UsernameTaken or EmailAlreadyExists, and a failed call stores nothing.
C9_RegisterAtomicUnit ==
    /\ \A p, q \in Procs :
         (p # q /\ reg[p].pc = "done" /\ reg[q].pc = "done"
               /\ reg[p].res = "ok" /\ reg[q].res = "ok") =>
            (reg[p].username # reg[q].username /\ reg[p].email # reg[q].email)
    /\ \A p \in Procs :
         reg[p].pc = "done" =>
            reg[p].res \in {"ok", "ErrUsernameTaken", "ErrEmailAlreadyExists"}
    /\ Cardinality(users) =
         Cardinality({p \in Procs : reg[p].pc = "done" /\ reg[p].res = "ok"})

\* C9, the diverging state: of two interleaved calls with one username, the
\* one that saved second passed both checks and came back with the wrapped
\* INSERT error
C9_Divergence ==
    \E p \in Procs : /\ reg[p].pc = "done"
                     /\ reg[p].res = "ErrSaveFailed"
                     /\ ~reg[p].uLive
                     /\ ~reg[p].eLive
                     /\ ~reg[p].anyRow

C6_ParseTokenOnlyOwnUnexpired ==
    parsed.called =>
        /\ parsed.out.err = "nil" <=>
              (parsed.tok \in IssuedTokens /\ parsed.at < parsed.tok.claims.exp)
        /\ parsed.out.err = "nil" => parsed.out.claims = parsed.tok.claims
        /\ parsed.out.err # "nil" => parsed.out.claims = NoClaims

\* C6 witness: a token re-signed with another secret, and carrying decoded
\* claims, was presented and refused with nil Claims
C6_Witness ==
    /\ parsed.called
    /\ parsed.tok.hdr = "HS256"
    /\ parsed.tok.sig[2] = OtherSecret.id
    /\ parsed.out = [claims |-> NoClaims, err |-> "ErrSignatureInvalid"]

\* C7: under either codec implementation, a well-formed token whose header
\* declares an algorithm outside the HMAC family fails ParseToken.
C7_NonHMACRejected ==
    (parsed.called /\ parsed.tok # Malformed /\ parsed.tok.hdr \notin HMACAlgs)
        => (parsed.out.err # "nil" /\ parsed.out.claims = NoClaims)

\* C7 witness: the codec without the algorithm check was handed an unexpired
\* alg-none token and refused it
C7_Witness ==
    /\ parsed.called
    /\ codec.impl = "legacy"
    /\ parsed.tok.hdr = "none"
    /\ parsed.at < parsed.tok.claims.exp
    /\ parsed.out.err = "NoneSignatureTypeDisallowedError"

\* C8: parsing a token GenerateToken(userID, username, role) returned, with
\* the same codec and before the token's exp, gives no error and Claims whose
\* user_id, username and role are the inputs.
C8_GenerateParseRoundTrip ==
    \A i \in issued :
        (parsed.called /\ parsed.tok = i.tok /\ parsed.at < i.tok.claims.exp)
            => /\ parsed.out.err = "nil"
               /\ parsed.out.claims.nil = FALSE
               /\ parsed.out.claims.user_id = i.userID
               /\ parsed.out.claims.username = i.username
               /\ parsed.out.claims.role = i.role

\* C8 witness: a token issued after the clock moved was parsed later, still
\* before its exp, and the Claims came back
C8_Witness ==
    \E i \in issued :
        /\ parsed.called /\ parsed.tok = i.tok
        /\ i.tok.claims.iat > 0
        /\ parsed.at > i.tok.claims.iat
        /\ parsed.at < i.tok.claims.exp
        /\ parsed.out.err = "nil"

\* the token a request's Authorization header carries, prefix or not
PresentedToken(r) == IF r.header.rest = <<>> THEN Malformed ELSE r.header.rest[1]

\* the request carries a token the codec issued, and Authenticate looked at
\* it before its exp
CarriesValidToken(r) ==
    /\ r.header.rest # <<>>
    /\ PresentedToken(r) \in IssuedTokens
    /\ r.at < PresentedToken(r).claims.exp

\* C2: once Authenticate has run on a request whose Authorization header is
\* absent or empty, or whose token is expired, malformed, altered or signed
\* with another key, the answer is 401, the wrapped handler has not been
\* called, and the request's context is the one it arrived with.
C2_AuthenticateRejectsWith401 ==
    ("Authenticate" \in req.ran /\ ~CarriesValidToken(req))
        => /\ req.resp.status = 401
           /\ Stage(req) = "done"
           /\ req.handlerCalls = 0
           /\ "handler" \notin req.ran
           /\ "RequireRole" \notin req.ran
           /\ req.ctx = req.baseCtx

\* C2 witness: an issued token presented after its exp, on a request that
\* arrived with a non-empty context, was answered 401
C2_Witness ==
    /\ "Authenticate" \in req.ran
    /\ req.header.bearer
    /\ PresentedToken(req) \in IssuedTokens
    /\ req.at >= PresentedToken(req).claims.exp
    /\ req.baseCtx = <<RequestID>>
    /\ req.resp.status = 401

\* C3: once Authenticate has run on a request with "Authorization: Bearer t"
\* where ParseToken accepts t, the request's context is a proper extension
\* of the one it arrived with, from which GetUserID, GetUsername and GetRole
\* read t's claims; and where Authenticate wraps the handler directly, the
\* handler is about to be called or has been called exactly once, with that
\* context.
C3_AuthenticatePassesIdentity ==
    LET out == ParseToken(codec, req.at, PresentedToken(req)) IN
    ("Authenticate" \in req.ran /\ req.header.bearer /\ req.header.rest # <<>>
        /\ out.err = "nil")
        => /\ Len(req.ctx) > Len(req.baseCtx)
           /\ SubSeq(req.ctx, 1, Len(req.baseCtx)) = req.baseCtx
           /\ GetUserID(req.ctx) = [val |-> out.claims.user_id, err |-> "nil"]
           /\ GetUsername(req.ctx) = [val |-> out.claims.username, err |-> "nil"]
           /\ GetRole(req.ctx) = [val |-> out.claims.role, err |-> "nil"]
           /\ req.route = "auth" =>
                 IF Stage(req) = "done"
                 THEN /\ req.handlerCalls = 1
                      /\ req.handlerCtx = req.ctx
                      /\ req.resp.status = 200
                 ELSE Stage(req) = "handler" /\ req.handlerCalls = 0

\* C3 witness: a Bearer token was accepted on a request that arrived with a
\* request id in its context, and the handler ran once
C3_Witness ==
    /\ req.route = "auth"
    /\ req.header.bearer
    /\ CarriesValidToken(req)
    /\ req.baseCtx = <<RequestID>>
    /\ req.handlerCalls = 1
    /\ GetUserID(req.handlerCtx).val = PresentedToken(req).claims.user_id

\* C4: once RequireRole has run, the wrapped handler is called (once) if the
\* context it saw binds "role" to a string that is a member of allowedRoles,
\* and in every other case the answer is 403 and the handler is not called.
C4_RequireRoleExactMembership ==
    "RequireRole" \in req.ran =>
        LET roleValue == ContextValue(req.roleCtx, ContextKeyRole) IN
        IF roleValue.type = "string" /\ roleValue.str \in req.allowed
        THEN IF Stage(req) = "done"
             THEN req.handlerCalls = 1 /\ req.resp.status = 200
             ELSE Stage(req) = "handler" /\ req.handlerCalls = 0
        ELSE /\ Stage(req) = "done"
             /\ req.resp.status = 403
             /\ req.handlerCalls = 0
             /\ "handler" \notin req.ran

\* C4 witness: RequireRole alone, on a context with no role, answered 403
C4_Witness ==
    /\ req.route = "role"
    /\ "RequireRole" \in req.ran
    /\ ContextValue(req.roleCtx, ContextKeyRole) = NilValue
    /\ req.resp.status = 403
    /\ req.handlerCalls = 0

\* C5: on the chain Authenticate, RequireRole, handler, an answered request
\* without a valid token got 401, and one with a valid token whose role is
\* not in allowedRoles got 403; in neither case was the handler called.
C5_ChainAnswers401Then403 ==
    (req.route = "authRole" /\ Stage(req) = "done") =>
        /\ ~CarriesValidToken(req)
              => (req.resp.status = 401 /\ req.handlerCalls = 0)
        /\ (CarriesValidToken(req)
              /\ PresentedToken(req).claims.role \notin req.allowed)
              => (req.resp.status = 403 /\ req.handlerCalls = 0)

\* C5 witness: a valid token with role "user" on a chain requiring "admin"
\* was answered 403
C5_Witness ==
    /\ req.route = "authRole"
    /\ Stage(req) = "done"
    /\ CarriesValidToken(req)
    /\ PresentedToken(req).claims.role = "user"
    /\ req.allowed = {"admin"}
    /\ req.resp.status = 403
    /\ req.handlerCalls = 0

\* C14: RefreshToken on a token the codec issued, called before the token's
\* exp, returns no error and a token whose user_id, username and role are the
\* old token's and whose exp is strictly later (when the call is made later
\* than every call that issued the old token); on any other token it returns
\* an error and the empty string.
C14_RefreshExtendsExpiry ==
    refreshed.called =>
        IF refreshed.tok \in IssuedTokens /\ refreshed.at < refreshed.tok.claims.exp
        THEN /\ refreshed.out.err = "nil"
             /\ refreshed.later
                   => refreshed.out.token.claims.exp > refreshed.tok.claims.exp
             /\ refreshed.out.token.claims.user_id = refreshed.tok.claims.user_id
             /\ refreshed.out.token.claims.username = refreshed.tok.claims.username
             /\ refreshed.out.token.claims.role = refreshed.tok.claims.role
        ELSE /\ refreshed.out.err # "nil"
             /\ refreshed.out.token = Malformed

\* C14, the diverging state: a valid token was refreshed later than it was
\* issued, and the token returned expires no later than the old one
C14_Divergence ==
    /\ refreshed.called
    /\ refreshed.tok \in IssuedTokens
    /\ refreshed.out.err = "nil"
    /\ refreshed.later
    /\ codec.expireDuration % TicksPerSecond = 0
    /\ refreshed.out.token.claims.exp <= refreshed.tok.claims.exp

\* C15: every token the system issues carries an expiry that is exactly its
\* issued-at plus the expiry duration its codec is configured with (the range
\* of that duration, one minute to thirty days, is what validateJWTConfig
\* enforces: see C16)
C15_ExpiryIsIssuedAtPlusDuration ==
    \A i \in issued :
        i.tok.claims.exp = i.tok.claims.iat + codec.expireDuration

\* C15, the divergence: the codec configured from the environment with a
\* duration that has a fraction of a second issued a token at a known instant,
\* and the token's lifetime is not the configured duration
C15_Divergence ==
    \E i \in issued :
        /\ codec.impl = "current"
        /\ codec.secretKey = ConfiguredSecret
        /\ codec.expireDuration % TicksPerSecond # 0
        /\ i.tok.claims.iat = NewNumericDate(i.at)
        /\ i.tok.claims.exp - i.tok.claims.iat # codec.expireDuration

\* a configuration validateJWTConfig accepts
ValidConfig(c) ==
    /\ c.secretLen >= MinJWTSecretKeyLength
    /\ c.expireDuration \in MinJWTExpiration..MaxJWTExpiration

\* C16: no configuration with a secret shorter than 32 characters or an
\* expiry outside one minute to thirty days is ever in use: none is held by
\* the configuration, codec or middleware singleton, and no accessor call
\* returns one or a codec built from one (the call aborts instead)
C16_NoInvalidConfigurationInUse ==
    /\ \A s \in Singletons : ~instance[s].cfg.nil => ValidConfig(instance[s].cfg)
    /\ (ret.res = "ok" /\ ~ret.cfg.nil) => ValidConfig(ret.cfg)

\* C16, the divergence: GetJWTConfig of the earlier jwt_config.go has
\* returned, without aborting, a configuration whose secret is too short
C16_Divergence ==
    /\ env.build = "legacy"
    /\ ret.op = "GetJWTConfig"
    /\ ret.res = "ok"
    /\ ret.cfg.secretLen < MinJWTSecretKeyLength

AuthenticateAccepts(header) ==
    LET ext == extractToken(header) IN
    /\ ext.err = "nil"
    /\ ParseToken(codec, now, TokenOf(ext.token)).err = "nil"

\* no Authorization header, and the issued tokens behind the Bearer prefix
BearerHeaders ==
    {EmptyHeader} \cup {[bearer |-> TRUE, rest |-> <<tok>>] : tok \in IssuedTokens}

\* C18: no step of a RegisterUser, AuthenticateUser, ChangePassword,
\* ChangeUserStatus, SoftDeleteUser or DeleteUser call (a step that changes
\* the credential state and leaves the clock and the codec's secret alone)
\* changes what ParseToken returns for any token, or what Authenticate
\* decides for any Authorization header
C18_TokenValidityStateless ==
    [][(credVars' # credVars /\ now' = now /\ codec'.secretKey = codec.secretKey) =>
         /\ \A tok \in Presentable :
              ParseToken(codec, now, tok)' = ParseToken(codec, now, tok)
         /\ \A header \in BearerHeaders :
              AuthenticateAccepts(header)' = AuthenticateAccepts(header)]_vars

\* C18, witness: ParseToken accepted a token at a moment when the account of
\* the token's subject was banned or deleted
C18_Witness ==
    /\ parsed.called
    /\ parsed.out.err = "nil"
    /\ \E r \in parsed.rows :
         /\ r.id = parsed.out.claims.user_id
         /\ (r.deleted \/ r.status = UserStatusBanned)

\* C19: a request Authenticate has handled went NoToken -> Rejected without
\* a call of ParseToken when its Authorization header is absent or holds no
\* token, and otherwise NoToken -> TokenExtracted -> Verified or Rejected
\* with exactly one call of ParseToken, on a non-empty token; Verified means
\* next.ServeHTTP was called once and no 401 written, Rejected that 401 was
\* written and next.ServeHTTP not called
C19_AuthenticateStateMachine ==
    "Authenticate" \in req.ran =>
        LET noToken == req.header = EmptyHeader \/ req.header.rest = <<>>
            rejected == /\ "RequireRole" \notin req.ran
                        /\ req.resp.status = 401
            verified == req.nexts = 1
        IN /\ req.parses <= 1
           /\ req.parses = 1 <=> ~noToken
           /\ noToken => req.trace = <<"NoToken", "Rejected">>
           /\ ~noToken => /\ Len(req.trace) = 3
                          /\ req.trace[1] = "NoToken"
                          /\ req.trace[2] = "TokenExtracted"
                          /\ req.trace[3] \in {"Verified", "Rejected"}
           /\ req.trace[Len(req.trace)] = "Verified" <=> verified
           /\ req.trace[Len(req.trace)] = "Rejected" <=> rejected
           /\ verified # rejected

\* C19, witnesses: a request rejected without a call of ParseToken, one
\* rejected after it, and one verified have all occurred; this one is the
\* request with "Bearer " and no token, rejected with no call of ParseToken
C19_Witness ==
    /\ "Authenticate" \in req.ran
    /\ req.header = [bearer |-> TRUE, rest |-> <<>>]
    /\ req.parses = 0
    /\ req.resp.status = 401

\* C20: a request OptionalAuthenticate has handled was passed to the wrapped
\* handler exactly once and not answered by the middleware, and the context
\* it was passed with (and the handler saw) carries the token's identity
\* when the request presented a token ParseToken accepted, and is the
\* context the request arrived with, without identity, otherwise
C20_OptionalAuthenticateNeverRejects ==
    "OptionalAuthenticate" \in req.ran =>
        /\ req.nexts = 1
        /\ req.resp.status \notin {401, 403}
        /\ req.handlerCalls <= 1
        /\ "handler" \in req.ran => (req.handlerCalls = 1 /\ req.handlerCtx = req.ctx)
        /\ IF CarriesValidToken(req)
           THEN /\ GetUserID(req.ctx) = [val |-> PresentedToken(req).claims.user_id, err |-> "nil"]
                /\ GetUsername(req.ctx) = [val |-> PresentedToken(req).claims.username, err |-> "nil"]
                /\ GetRole(req.ctx) = [val |-> PresentedToken(req).claims.role, err |-> "nil"]
           ELSE /\ req.ctx = req.baseCtx
                /\ GetUserID(req.ctx).err # "nil"
                /\ GetUsername(req.ctx).err # "nil"
                /\ GetRole(req.ctx).err # "nil"

\* C20, witness: the handler has run for a request that presented a token
\* ParseToken refused, and saw no identity
C20_Witness ==
    /\ "OptionalAuthenticate" \in req.ran
    /\ "handler" \in req.ran
    /\ req.header.rest # <<>>
    /\ ~CarriesValidToken(req)
    /\ GetUserID(req.handlerCtx).err # "nil"

(***************************************************************************)
(* C21: a request whose username, email or password fails its              *)
(* value-constructor format check is rejected as a validation failure and  *)
(* answered with a 400-class status.                                       *)
(***************************************************************************)
FormatCheckFails ==
    \/ /\ api.handler = "RegisterUserHandler"
       /\ \/ NewUsername(api.username).err.kind # "nil"
          \/ NewEmail(api.email).err.kind # "nil"
          \/ NewPassword(api.password).err.kind # "nil"
    \/ /\ api.handler \in {"LoginUserHandler", "UserHandler.LoginUser"}
       /\ \/ NewEmail(api.email).err.kind # "nil"
          \/ NewPassword(api.password).err.kind # "nil"

\* C21 as stated: every exchange whose input fails a format check is answered
\* with a status between 400 and 499
C21_FormatFailureIs400 ==
    FormatCheckFails => api.status \in 400..499

\* C21, the diverging case: handler.Wrap answers the plain error NewUsername
\* or NewPassword built with errors.New through WriteError, which knows only
\* BusinessError values, as 500 "internal server error"
C21_Divergence ==
    /\ api.handler = "RegisterUserHandler"
    /\ NewUsername(api.username).err.kind = "plain"
    /\ api.status = 500
    /\ api.message = "internal server error"
    /\ api.calls = <<>>

(***************************************************************************)
(* C22: a login attempt against an inactive or banned account is reported  *)
(* as a permission error and answered with HTTP 403, by every login        *)
(* handler.                                                                *)
(***************************************************************************)
\* the last exchange was a well-formed login for an account that is inactive
\* or banned
LoginAgainstBlockedAccount ==
    /\ api.handler \in {"LoginUserHandler", "UserHandler.LoginUser"}
    /\ api.account # <<>>
    /\ api.account[1].status \in {UserStatusInactive, UserStatusBanned}

\* C22 as stated: such a login is answered 403, whichever handler served it
C22_BlockedLoginIs403 ==
    LoginAgainstBlockedAccount => api.status = 403

\* C22, the diverging case: UserHandler.LoginUser answers every
\* AuthenticateUser error, ErrAccountInactive and ErrAccountBanned included,
\* with 401 "Invalid credentials"
C22_Divergence ==
    /\ api.handler = "UserHandler.LoginUser"
    /\ LoginAgainstBlockedAccount
    /\ api.status = 401
    /\ api.message = "Invalid credentials"

(***************************************************************************)
(* C23: for every valid password p, Verify(p, Hash(p)) is true, and Verify *)
(* is total: for a mismatching password or a malformed hash value it       *)
(* answers false, never an error or a panic.                               *)
(***************************************************************************)
\* hash values that are not bcrypt digests: the empty string, a plain
\* password, a digest cut short
MalformedHashes == {<<>>, <<"$2a$">>, <<"$2a$", "saltA">>} \cup Passwords

\* C23: the hash RegisterUser has just stored verifies against the password
\* it was computed from and against no other password a client may type;
\* whatever password and hash value Verify is given, of the stored hashes,
\* their digests and the malformed values, it answers a boolean, and false
\* for every malformed hash
C23_VerifyAcceptsOwnHashAndIsTotal ==
    /\ (last.op = "RegisterUser" /\ last.res = "ok") =>
         \E r \in users :
            /\ r.username = last.username
            /\ HasherVerify(last.password, r.passwordHash)
            /\ \A p \in LoginPasswords \ {last.password} :
                  ~HasherVerify(p, r.passwordHash)
    /\ \A p \in LoginPasswords, r \in users :
         /\ HasherVerify(p, r.passwordHash) \in BOOLEAN
         /\ HasherVerify(r.passwordHash, p) \in BOOLEAN
    /\ \A p \in LoginPasswords, h \in MalformedHashes : ~HasherVerify(p, h)

\* C23 witness: a registration has stored Hash(p), and passwords other than
\* p, digests among them, can be typed against it
C23_Witness ==
    /\ last.op = "RegisterUser"
    /\ last.res = "ok"
    /\ \E r \in users : r.username = last.username
                         /\ r.passwordHash \in {HasherHash(last.password, s) : s \in Salts}
    /\ Cardinality(LoginPasswords) > Cardinality(Passwords)

(***************************************************************************)
(* C24: every protected handler, called with a context that carries no     *)
(* authenticated identity, returns the error "unauthorized: invalid user   *)
(* context" with an empty response and performs no read or write through   *)
(* the application service, whatever the request body contains.            *)
(***************************************************************************)
\* C24: an exchange of a protected handler whose context had no identity
\* ended with that error, no success answer, no user id taken from the
\* context, and no application-service call
C24_NoIdentityNoServiceCall ==
    (api.handler \in ProtectedHandlers /\ api.ctx.identity = <<>>) =>
        /\ api.err = Error("plain", "", "unauthorized: invalid user context")
        /\ api.calls = <<>>
        /\ api.uid = 0
        /\ api.token = <<>>
        /\ api.status # 200

\* C24 witness: a protected handler has refused a request that had a body
\* and no identity
C24_Witness ==
    /\ api.handler \in ProtectedHandlers
    /\ api.ctx.identity = <<>>
    /\ api.password # <<>>
    /\ api.err.code = "unauthorized: invalid user context"
    /\ api.calls = <<>>

C26_MissingAccountIsErrUserNotFound ==
    /\ (last.op \in {"ChangePassword", "ChangeUserStatus"}
          /\ FindByID(users, last.uid) = {}) => last.res = "ErrUserNotFound"
    /\ last.res # "panic"

\* C26, the diverging state: the account a valid token was issued for has
\* been deleted; ChangePassword with the token's subject id gets (nil, nil)
\* from FindByID and dereferences the nil entity
C26_Divergence ==
    /\ last.op = "ChangePassword"
    /\ last.res = "panic"
    /\ FindByID(users, last.uid) = {}
    /\ \E i \in issued :
          /\ ParseToken(codec, now, i.tok).err = "nil"
          /\ ParseToken(codec, now, i.tok).claims.user_id = last.uid
    /\ nextId > last.uid

(***************************************************************************)
(* C27: the login endpoint returns a success response only together with a *)
(* non-empty signed token; when token generation fails after the           *)
(* credentials were accepted, the client receives a 500-class error, never *)
(* a success carrying an empty token.                                      *)
(***************************************************************************)
\* the last exchange was a login whose credentials the credential service
\* accepted
LoginAccepted ==
    /\ api.handler \in {"LoginUserHandler", "UserHandler.LoginUser"}
    /\ api.calls = <<"AuthenticateUser", "GenerateToken">>

\* C27 as stated: a login answered 200 carries a token, and an accepted login
\* whose token could not be signed is answered with a status of 500 or above
C27_SuccessCarriesToken ==
    /\ (LoginAccepted /\ api.status = 200) => api.token # <<>>
    /\ (LoginAccepted /\ ~api.signed) => api.status >= 500

\* C27, the diverging case: LoginUserHandler drops the error of
\* middleware.GenerateToken and answers 200 with the empty token
C27_Divergence ==
    /\ api.handler = "LoginUserHandler"
    /\ LoginAccepted
    /\ ~api.signed
    /\ api.status = 200
    /\ api.token = <<>>
    /\ api.uid > 0

(***************************************************************************)
(* C28: the token issued on a successful login carries the authenticated   *)
(* account's id as subject, its username as display name and the account's *)
(* role as role claim, so that RequireRole on that token compares the      *)
(* account's role with the required roles.                                 *)
(***************************************************************************)
\* the role tag of a credential record: its status column, the only such
\* attribute a users row has
AccountRole(r) == r.status

\* C28 as stated: the claims of a token a login issued are the id, the
\* username and the role tag of the account that logged in
C28_TokenCarriesAccountIdentity ==
    (LoginAccepted /\ api.token # <<>>) =>
        LET claims == api.token[1].claims
            account == api.account[1]
        IN  /\ claims.user_id = account.id
            /\ claims.username = account.username
            /\ claims.role = AccountRole(account)

\* C28, the diverging case: UserHandler.LoginUser signs the constant "user"
\* as the role of every account, where LoginUserHandler signs the status
\* "active", so RequireRole sees two different roles for one account
C28_Divergence ==
    /\ api.handler = "UserHandler.LoginUser"
    /\ LoginAccepted
    /\ api.token # <<>>
    /\ api.token[1].claims.user_id = api.account[1].id
    /\ api.token[1].claims.role = "user"
    /\ api.account[1].status = "active"
    /\ ~hasRole(api.token[1].claims.role, {AccountRole(api.account[1])})

(***************************************************************************)
(* C29: every call to GetMySQLConfig returns either a non-nil validated    *)
(* configuration with a nil error, or a non-nil error; when the first      *)
(* call fails, later and concurrent calls also report a failure and never  *)
(* return a nil configuration together with a nil error.                   *)
(***************************************************************************)
\* C29 as stated: no call has returned (nil, nil)
C29_ConfigOrError ==
    \A p \in Procs :
       my.calls[p].pc = "done" =>
          \/ my.calls[p].cfg # "nil" /\ my.calls[p].err = "nil"
          \/ my.calls[p].err # "nil"

\* C29, the diverging state: the initialising call failed and returned its
\* error; another call found the Once done and returned the nil package
\* variable with its own nil err
C29_Divergence ==
    \E p, q \in Procs :
       /\ my.calls[p].pc = "done" /\ my.calls[p].first
       /\ my.calls[p].cfg = "nil" /\ my.calls[p].err # "nil"
       /\ my.calls[q].pc = "done" /\ ~my.calls[q].first
       /\ my.calls[q].cfg = "nil" /\ my.calls[q].err = "nil"

(***************************************************************************)
(* C30: Client.Transaction(fn) begins exactly one database transaction per *)
(* call, commits it if fn returns nil and rolls it back if fn returns an   *)
(* error or panics, so that when the call returns no transaction begun by  *)
(* it is still open.                                                       *)
(***************************************************************************)
\* C30 as stated: a call that has returned began at most one transaction,
\* exactly one if it reached fn, and every transaction it began is committed
\* (fn returned nil) or rolled back (fn returned an error or panicked)
C30_OneTransactionClosedOnReturn ==
    \A p \in Procs :
       LET call == tx.calls[p] IN
       call.pc = "done" =>
          /\ call.begun <= 1
          /\ call.fn # "" => call.begun = 1
          /\ call.fn = "nil" => call.committed = 1 /\ call.rolledBack = 0
          /\ call.fn \in {"error", "panic"} =>
                call.committed = 0 /\ call.rolledBack = 1
          /\ call.begun = call.committed + call.rolledBack

\* C30, the diverging state: a call whose fn returned nil has begun two
\* transactions and committed one; the one c.db.BeginTxx opened was dropped
\* and is still open
C30_Divergence ==
    \E p \in Procs :
       /\ tx.calls[p].pc = "done"
       /\ tx.calls[p].fn = "nil"
       /\ tx.calls[p].res = "nil"
       /\ tx.calls[p].begun = 2
       /\ tx.calls[p].committed = 1
       /\ tx.calls[p].rolledBack = 0

====
